---- MODULE Spec2Model ----
(***************************************************************************)
(* Saga orchestration of the distributed e-commerce system: the            *)
(* orchestrator's state machine over the persisted saga_instances rows,    *)
(* the order service that starts and finalises orders, and the participant *)
(* services as producers of reply events.  Messages travel through one     *)
(* durable exchange; a message stays in flight until its consumer          *)
(* acknowledges it.  Delivery is modelled at the handler: a published      *)
(* event is handed to the handler of the service that consumes its event   *)
(* type.                                                                   *)
(***************************************************************************)
EXTENDS Integers, Sequences, FiniteSets, Bags, TLC

\* Bounds of the model.
MaxDup == 1
MaxHist == 12
MaxCommands == 4
MaxPaymentCommands == 3
MaxInbox == 2
MaxRepublish == 4
MaxCrash == 1
MaxOrderErrors == 1
MaxShippingCommands == 3
MaxReconnect == 2

Orders == {1}
\* StartSaga draws the saga id with uuid.New(); the order service draws a
\* different one for its order.created event (order_service.go:65).
OrchSagaID(o) == o
OrderSagaID(o) == 100 + o
SagaIDs == {OrchSagaID(o) : o \in Orders} \cup {OrderSagaID(o) : o \in Orders}

Nil == "nil"

VARIABLES
    orders,     \* order service: orders table
    sagas,      \* orchestrator: saga_instances table
    starting,   \* sagas whose StartSaga is between CreateSaga and processNextStep
    queue,      \* bag of published, not yet acknowledged events
    hist,       \* per saga id: events handled ("in") and published ("out") by the orchestrator
    dups,       \* number of redeliveries the broker has made
    products,   \* inventory service: products table
    reservations, \* inventory service: inventory_reservations table
    invLog,     \* commands handed directly to the inventory handler, with the replies
    payments,   \* payment service: payments table
    payLog,     \* commands handed directly to the payment handler, with the replies
    shipments,  \* shipping service: shipments table
    shipLog,    \* commands handed directly to the shipping handler, with the replies
    deliveries, \* consumer: bag of messages in the queue of one consumer, with their headers
    dead,       \* consumer: events of the messages rejected without requeue
    settled,    \* consumer: the handling of the last delivery and its settlement calls
    loaded,     \* per orchestrator instance: the delivery it is handling and the table it read
    workers,    \* per inventory worker: the reserve command it is handling and the product it read
    crashes,    \* number of crashes of the orchestrator
    broker,     \* consumer: its connection, channel and subscription
    orderErrors \* the errors the order service has returned, in order

vars == <<orders, sagas, starting, queue, hist, dups,
          products, reservations, invLog, payments, payLog,
          shipments, shipLog,
          deliveries, dead, settled, loaded, workers, crashes, orderErrors, broker>>

\* the tables of the participants
participantVars ==
    <<products, reservations, invLog, payments, payLog, shipments, shipLog>>

\* the state of the specifications of single components
auxVars == <<deliveries, dead, settled, loaded, workers, crashes, orderErrors, broker>>

Instances == {1, 2}
Idle == [busy |-> FALSE]

----------------------------------------------------------------------------
\* Saga domain (saga-orchestrator/internal/domain)

StepOrderCreated == "order_created"
StepPaymentProcessed == "payment_processed"
StepInventoryReserved == "inventory_reserved"
StepShippingCreated == "shipping_created"
StepNotificationSent == "notification_sent"
StepOrderCancelled == "order_cancelled"
StepPaymentRefunded == "payment_refunded"
StepInventoryReleased == "inventory_released"
StepShippingCancelled == "shipping_cancelled"

SagaStatusStarted == "started"
SagaStatusInProgress == "in_progress"
SagaStatusCompleted == "completed"
SagaStatusFailed == "failed"
SagaStatusCompensating == "compensating"
SagaStatusCompensated == "compensated"

Contains(seq, x) == \E i \in DOMAIN seq : seq[i] = x

\* payload[key] of a decoded JSON object: nil when the key is absent
Get(payload, key) == IF key \in DOMAIN payload THEN payload[key] ELSE Nil

EmptyContext ==
    [payment_id |-> Nil, transaction_id |-> Nil, reservation_ids |-> Nil,
     shipment_id |-> Nil, tracking_id |-> Nil]

\* a row of saga_instances; status "none" stands for "no such row"
NoRow ==
    [order_id |-> 0, status |-> "none", current_step |-> "",
     completed_steps |-> <<>>, failure_reason |-> "",
     context |-> EmptyContext, completed_at |-> FALSE]

IsStepCompleted(s, step) == Contains(s.completed_steps, step)

MarkStepCompletedCurrentOnly(s, step) == [s EXCEPT !.current_step = step]

MarkStepCompleted(s, step) ==
    [s EXCEPT !.completed_steps =
                  IF IsStepCompleted(s, step) THEN @ ELSE Append(@, step),
              !.current_step = step]

GetNextStepSkip(s) ==
    CASE s.current_step = StepOrderCreated -> StepPaymentProcessed
      [] s.current_step = StepPaymentProcessed -> StepShippingCreated
      [] s.current_step = StepInventoryReserved -> StepShippingCreated
      [] s.current_step = StepShippingCreated -> StepNotificationSent
      [] OTHER -> ""

GetNextStep(s) ==
    CASE s.current_step = StepOrderCreated -> StepPaymentProcessed
      [] s.current_step = StepPaymentProcessed -> StepInventoryReserved
      [] s.current_step = StepInventoryReserved -> StepShippingCreated
      [] s.current_step = StepShippingCreated -> StepNotificationSent
      [] OTHER -> ""

IsCompensationCompleted(s, step) == Contains(s.compensated_steps, step)

GetCompensationStep(s) ==
    IF IsStepCompleted(s, StepShippingCreated)
         /\ ~IsCompensationCompleted(s, StepShippingCancelled)
    THEN StepShippingCancelled
    ELSE IF IsStepCompleted(s, StepInventoryReserved)
              /\ ~IsCompensationCompleted(s, StepInventoryReleased)
    THEN StepInventoryReleased
    ELSE IF IsStepCompleted(s, StepPaymentProcessed)
              /\ ~IsCompensationCompleted(s, StepPaymentRefunded)
    THEN StepPaymentRefunded
    ELSE IF IsStepCompleted(s, StepOrderCreated)
              /\ ~IsCompensationCompleted(s, StepOrderCancelled)
    THEN StepOrderCancelled
    ELSE ""

MarkCompensationCompleted(s, step) ==
    [s EXCEPT !.compensated_steps =
                  IF IsCompensationCompleted(s, step) THEN @ ELSE Append(@, step)]

----------------------------------------------------------------------------
\* Saga repository (saga-orchestrator/internal/repository)

\* the columns the INSERT and UPDATE statements write
Row(s) ==
    [order_id |-> s.order_id, status |-> s.status,
     current_step |-> s.current_step, completed_steps |-> s.completed_steps,
     failure_reason |-> s.failure_reason, context |-> s.context,
     completed_at |-> s.completed_at]

\* the SELECT scans no compensated_steps column: the loaded instance has none
GetSagaByID(db, id) ==
    [id |-> id, order_id |-> db[id].order_id, status |-> db[id].status,
     current_step |-> db[id].current_step,
     completed_steps |-> db[id].completed_steps,
     compensated_steps |-> <<>>,
     failure_reason |-> db[id].failure_reason, context |-> db[id].context,
     completed_at |-> db[id].completed_at]

SagaExists(db, id) == id \in DOMAIN db /\ db[id].status # "none"

\* order_id is UNIQUE in saga_instances
CanCreateSaga(db, s) ==
    /\ ~SagaExists(db, s.id)
    /\ \A i \in DOMAIN db : SagaExists(db, i) => db[i].order_id # s.order_id

CreateSaga(db, s) == [db EXCEPT ![s.id] = Row(s)]

UpdateSaga(db, s) == [db EXCEPT ![s.id] = Row(s)]

----------------------------------------------------------------------------
\* Events (shared-domain/events) and the commands the orchestrator sends

Event(type, sagaID, orderID, service, payload) ==
    [type |-> type, saga |-> sagaID, order |-> orderID,
     service |-> service, payload |-> payload]

sendStepEvent(s, step) ==
    CASE step = StepPaymentProcessed ->
           Event("payment.process", s.id, s.order_id, "saga-orchestrator",
                 [order_id |-> "order", customer_id |-> "customer",
                  amount |-> "total_amount", payment_method |-> "credit_card"])
      [] step = StepInventoryReserved ->
           Event("inventory.reserve", s.id, s.order_id, "saga-orchestrator",
                 [order_id |-> "order", items |-> "items"])
      [] step = StepShippingCreated ->
           Event("shipping.create", s.id, s.order_id, "saga-orchestrator",
                 [order_id |-> "order", customer_id |-> "customer",
                  items |-> "items"])
      [] step = StepNotificationSent ->
           Event("notification.send", s.id, s.order_id, "saga-orchestrator",
                 [order_id |-> "order", customer_id |-> "customer",
                  type |-> "order_confirmation", message |-> "message"])

sendCompensationEvent(s, step) ==
    CASE step = StepShippingCancelled ->
           Event("shipping.cancel", s.id, s.order_id, "saga-orchestrator",
                 [shipment_id |-> s.context.shipment_id,
                  reason |-> s.failure_reason])
      [] step = StepInventoryReleased ->
           Event("inventory.release", s.id, s.order_id, "saga-orchestrator",
                 [reservation_ids |-> s.context.reservation_ids,
                  reason |-> s.failure_reason])
      [] step = StepPaymentRefunded ->
           Event("payment.refund", s.id, s.order_id, "saga-orchestrator",
                 [payment_id |-> s.context.payment_id,
                  transaction_id |-> s.context.transaction_id,
                  amount |-> "total_amount", reason |-> s.failure_reason])
      [] step = StepOrderCancelled ->
           Event("order.cancel", s.id, s.order_id, "saga-orchestrator",
                 [order_id |-> "order", reason |-> s.failure_reason])

----------------------------------------------------------------------------
\* Orchestrator service (saga-orchestrator/internal/service)
\* Every operation yields the table after it, the events it published and
\* whether it returned an error.

Result(db, out, err) == [db |-> db, out |-> out, err |-> err]

OrderCompleted(s) ==
    Event("order.completed", s.id, s.order_id, "saga-orchestrator",
          [order_id |-> "order", status |-> "completed"])

OrderCancelled(s) ==
    Event("order.cancelled", s.id, s.order_id, "saga-orchestrator",
          [order_id |-> "order", reason |-> s.failure_reason])

completeSaga(db, s) ==
    LET s2 == [s EXCEPT !.status = SagaStatusCompleted, !.completed_at = TRUE]
    IN  IF ~SagaExists(db, s2.id)
        THEN Result(db, <<>>, TRUE)
        ELSE Result(UpdateSaga(db, s2), <<OrderCompleted(s2)>>, FALSE)

processNextStep(db, s) ==
    LET nextStep == GetNextStep(s)
        s2 == [s EXCEPT !.status = SagaStatusInProgress]
    IN  IF nextStep = ""
        THEN completeSaga(db, s)
        ELSE IF ~SagaExists(db, s2.id)
        THEN Result(db, <<>>, TRUE)
        ELSE Result(UpdateSaga(db, s2), <<sendStepEvent(s2, nextStep)>>, FALSE)

compensationCompleted(db, s) ==
    LET s2 == [s EXCEPT !.status = SagaStatusCompensated, !.completed_at = TRUE]
    IN  IF ~SagaExists(db, s2.id)
        THEN Result(db, <<>>, TRUE)
        ELSE Result(UpdateSaga(db, s2), <<OrderCancelled(s2)>>, FALSE)

startCompensation(db, s) ==
    LET compensationStep == GetCompensationStep(s)
    IN  IF compensationStep = ""
        THEN compensationCompleted(db, s)
        ELSE IF ~SagaExists(db, s.id)
        THEN Result(db, <<>>, TRUE)
        ELSE Result(UpdateSaga(db, s),
                    <<sendCompensationEvent(s, compensationStep)>>, FALSE)

HandleCompensationSuccess(db, sagaID, completedCompensation) ==
    IF ~SagaExists(db, sagaID)
    THEN Result(db, <<>>, TRUE)
    ELSE startCompensation(db,
             MarkCompensationCompleted(GetSagaByID(db, sagaID),
                                       completedCompensation))

HandleStepFailure(db, sagaID, failedStep, eventData) ==
    IF ~SagaExists(db, sagaID)
    THEN Result(db, <<>>, TRUE)
    ELSE LET s  == GetSagaByID(db, sagaID)
             s2 == [s EXCEPT !.failure_reason =
                                 IF Get(eventData, "reason") # Nil
                                 THEN Get(eventData, "reason") ELSE @,
                             !.status = SagaStatusCompensating]
         IN  startCompensation(db, s2)

\* the step outputs HandleStepSuccess copies from the payload into the context
MergeContext(ctx, completedStep, eventData) ==
    CASE completedStep = StepPaymentProcessed ->
           [ctx EXCEPT !.payment_id = Get(eventData, "payment_id"),
                       !.transaction_id = Get(eventData, "transaction_id")]
      [] completedStep = StepInventoryReserved ->
           [ctx EXCEPT !.reservation_ids = Get(eventData, "reservation_ids")]
      [] completedStep = StepShippingCreated ->
           [ctx EXCEPT !.shipment_id = Get(eventData, "shipment_id"),
                       !.tracking_id = Get(eventData, "tracking_id")]
      [] OTHER -> ctx

HandleStepSuccess(db, sagaID, completedStep, eventData) ==
    IF ~SagaExists(db, sagaID)
    THEN Result(db, <<>>, TRUE)
    ELSE LET s  == MarkStepCompleted(GetSagaByID(db, sagaID), completedStep)
             s2 == [s EXCEPT !.context =
                                 MergeContext(@, completedStep, eventData)]
         IN  processNextStep(db, s2)

\* the cases of the switch in ProcessIncomingEvent
SuccessStepOf(type) ==
    CASE type = "payment.processed" -> StepPaymentProcessed
      [] type = "inventory.reserved" -> StepInventoryReserved
      [] type = "shipping.created" -> StepShippingCreated
      [] type = "notification.sent" -> StepNotificationSent
      [] OTHER -> ""

FailedStepOfAll(type) ==
    CASE type = "payment.failed" -> StepPaymentProcessed
      [] type = "inventory.failed" -> StepInventoryReserved
      [] type = "notification.failed" -> StepNotificationSent
      [] OTHER -> ""

FailedStepOf(type) ==
    CASE type = "payment.failed" -> StepPaymentProcessed
      [] type = "inventory.failed" -> StepInventoryReserved
      [] OTHER -> ""

CompensationStepOf(type) ==
    CASE type = "shipping.cancelled" -> StepShippingCancelled
      [] type = "inventory.released" -> StepInventoryReleased
      [] type = "payment.refunded" -> StepPaymentRefunded
      [] OTHER -> ""

ProcessIncomingEvent(db, event) ==
    IF SuccessStepOf(event.type) # ""
    THEN HandleStepSuccess(db, event.saga, SuccessStepOf(event.type),
                           event.payload)
    ELSE IF FailedStepOf(event.type) # ""
    THEN HandleStepFailure(db, event.saga, FailedStepOf(event.type),
                           event.payload)
    ELSE IF CompensationStepOf(event.type) # ""
    THEN HandleCompensationSuccess(db, event.saga,
                                   CompensationStepOf(event.type))
    ELSE Result(db, <<>>, FALSE)

----------------------------------------------------------------------------
\* Messaging (shared-domain/messaging)

ParticipantServices ==
    {"order-service", "payment-service", "inventory-service",
     "shipping-service", "notification-service"}

\* the service whose StartConsuming subscribes to the event, "" when none does
ConsumerOf(e) ==
    CASE e.service \in ParticipantServices -> "saga-orchestrator"
      [] e.service = "saga-orchestrator"
           /\ e.type \in {"payment.process", "payment.refund"} ->
           "payment-service"
      [] e.service = "saga-orchestrator"
           /\ e.type \in {"inventory.reserve", "inventory.release"} ->
           "inventory-service"
      [] e.service = "saga-orchestrator"
           /\ e.type \in {"shipping.create", "shipping.cancel"} ->
           "shipping-service"
      [] e.service = "saga-orchestrator"
           /\ e.type = "notification.send" -> "notification-service"
      [] e.service = "saga-orchestrator"
           /\ e.type \in {"order.completed", "order.cancelled"} ->
           "order-service"
      [] OTHER -> ""

\* the words of an event type, which the dots separate
EventTypeWords(type) ==
    CASE type = "order.created" -> <<"order", "created">>
      [] type = "order.completed" -> <<"order", "completed">>
      [] type = "order.cancelled" -> <<"order", "cancelled">>
      [] type = "order.cancel" -> <<"order", "cancel">>
      [] type = "payment.process" -> <<"payment", "process">>
      [] type = "payment.processed" -> <<"payment", "processed">>
      [] type = "payment.failed" -> <<"payment", "failed">>
      [] type = "payment.refund" -> <<"payment", "refund">>
      [] type = "payment.refunded" -> <<"payment", "refunded">>
      [] type = "payment.refund.failed" -> <<"payment", "refund", "failed">>
      [] type = "inventory.reserve" -> <<"inventory", "reserve">>
      [] type = "inventory.reserved" -> <<"inventory", "reserved">>
      [] type = "inventory.failed" -> <<"inventory", "failed">>
      [] type = "inventory.release" -> <<"inventory", "release">>
      [] type = "inventory.released" -> <<"inventory", "released">>
      [] type = "inventory.release.failed" ->
           <<"inventory", "release", "failed">>
      [] type = "shipping.create" -> <<"shipping", "create">>
      [] type = "shipping.created" -> <<"shipping", "created">>
      [] type = "shipping.failed" -> <<"shipping", "failed">>
      [] type = "shipping.cancel" -> <<"shipping", "cancel">>
      [] type = "shipping.cancelled" -> <<"shipping", "cancelled">>
      [] type = "shipping.cancel.failed" -> <<"shipping", "cancel", "failed">>
      [] type = "notification.send" -> <<"notification", "send">>
      [] type = "notification.sent" -> <<"notification", "sent">>
      [] type = "notification.failed" -> <<"notification", "failed">>
      [] OTHER -> <<type>>

\* PublishSagaEvent: the routing key saga.<service>.<event type>, as its words
RoutingKey(e) == <<"saga", e.service>> \o EventTypeWords(e.type)

\* the routing keys each StartConsuming binds its queue with, as their words
Bindings ==
    [q \in ParticipantServices \cup {"saga-orchestrator"} |->
        CASE q = "saga-orchestrator" ->
               {<<"saga", svc, "*">> : svc \in ParticipantServices}
          [] q = "payment-service" ->
               {<<"saga", "saga-orchestrator", "payment", "process">>,
                <<"saga", "saga-orchestrator", "payment", "refund">>}
          [] q = "inventory-service" ->
               {<<"saga", "saga-orchestrator", "inventory", "reserve">>,
                <<"saga", "saga-orchestrator", "inventory", "release">>}
          [] q = "shipping-service" ->
               {<<"saga", "saga-orchestrator", "shipping", "create">>,
                <<"saga", "saga-orchestrator", "shipping", "cancel">>}
          [] q = "notification-service" ->
               {<<"saga", "saga-orchestrator", "notification", "send">>}
          [] q = "order-service" ->
               {<<"saga", "saga-orchestrator", "order", "completed">>,
                <<"saga", "saga-orchestrator", "order", "cancelled">>}]

RECURSIVE TopicMatch(_, _)
\* the exchange is declared with type topic: * stands for exactly one word,
\* # for any number of words
TopicMatch(pattern, key) ==
    IF pattern = <<>> THEN key = <<>>
    ELSE IF Head(pattern) = "#"
    THEN \E n \in 0 .. Len(key) :
             TopicMatch(Tail(pattern), SubSeq(key, n + 1, Len(key)))
    ELSE /\ key # <<>>
         /\ Head(pattern) \in {"*", Head(key)}
         /\ TopicMatch(Tail(pattern), Tail(key))

\* the queues the exchange puts a message with the routing key into
RoutedTo(key) ==
    {q \in DOMAIN Bindings : \E pattern \in Bindings[q] :
                                 TopicMatch(pattern, key)}

RECURSIVE PublishAll(_, _)
\* PublishSagaEvent for each event of out; an event no queue is bound for is
\* dropped by the exchange
PublishAll(q, out) ==
    IF out = <<>> THEN q
    ELSE PublishAll(IF ConsumerOf(Head(out)) = "" THEN q
                    ELSE q (+) SetToBag({Head(out)}),
                    Tail(out))

Ack(q, e) == q (-) SetToBag({e})

Delivered(e, service) == BagIn(e, queue) /\ ConsumerOf(e) = service

\* Consumer.handleMessage: acknowledge after the handler succeeded; after a
\* handler error the message is published again and the delivery acknowledged
Settle(q, e, err) == IF err THEN q ELSE Ack(q, e)

Types(out) == [i \in DOMAIN out |-> <<"out", out[i].type>>]

----------------------------------------------------------------------------
\* Order service (order-service/internal/service)

NoOrder == [status |-> "none", saga_id |-> 0, failure_reason |-> ""]

OrderCreated(o) ==
    Event("order.created", OrderSagaID(o), o, "order-service",
          [order |-> "order"])

\* database/sql with lib/pq executes a statement only when the number of
\* arguments equals the number of its placeholders, and returns an error
\* otherwise
Exec(placeholders, args) == Len(args) = placeholders

NewOrderAggregate(o) ==
    [status |-> "pending", saga_id |-> 0, failure_reason |-> ""]

\* OrderRepository.CreateOrder: an INSERT with the placeholders $1 .. $9,
\* executed with ten arguments
OrderRepositoryCreateOrder(tbl, o, order) ==
    IF Exec(9, <<"ID", "CustomerID", "itemsJSON", "TotalAmount", "Status",
                 "FailureReason", "addressJSON", "SagaID", "CreatedAt",
                 "UpdatedAt">>)
    THEN [tbl |-> [tbl EXCEPT ![o] = order], err |-> FALSE]
    ELSE [tbl |-> tbl, err |-> TRUE]

\* OrderRepository.UpdateOrder: an UPDATE with the placeholders $1 .. $7,
\* executed with eight arguments; its SET list has no failure_reason
UpdateOrder(tbl, o, order) ==
    IF /\ Exec(7, <<"ID", "Status", "itemsJSON", "FailureReason",
                    "TotalAmount", "addressJSON", "SagaID", "UpdatedAt">>)
       /\ tbl[o].status # "none"
    THEN [tbl |-> [tbl EXCEPT ![o] =
                       [order EXCEPT !.failure_reason = tbl[o].failure_reason]],
          err |-> FALSE]
    ELSE [tbl |-> tbl, err |-> TRUE]

\* publishOrderCreatedEvent: attach a saga id, set the order to processing,
\* update the row, publish order.created
publishOrderCreatedEvent(tbl, o, order) ==
    LET upd == UpdateOrder(tbl, o, [order EXCEPT !.saga_id = OrderSagaID(o),
                                                 !.status = "processing"])
    IN  IF upd.err THEN [tbl |-> tbl, out |-> <<>>, err |-> TRUE]
        ELSE [tbl |-> upd.tbl, out |-> <<OrderCreated(o)>>, err |-> FALSE]

\* OrderService.CreateOrder: insert the pending order, then
\* publishOrderCreatedEvent; when that fails the order is set to failed
CreateOrderResult(tbl, o) ==
    LET ins == OrderRepositoryCreateOrder(tbl, o, NewOrderAggregate(o))
        pub == publishOrderCreatedEvent(ins.tbl, o, NewOrderAggregate(o))
    IN  IF ins.err THEN [tbl |-> tbl, out |-> <<>>, err |-> TRUE]
        ELSE IF pub.err
        THEN [tbl |-> UpdateOrder(ins.tbl, o,
                                  [status |-> "failed",
                                   saga_id |-> OrderSagaID(o),
                                   failure_reason |-> "Saga creation error"]).tbl,
              out |-> <<>>, err |-> TRUE]
        ELSE pub

CreateOrder(o) ==
    /\ orders[o].status = "none"
    /\ LET r == CreateOrderResult(orders, o)
       IN  /\ orders' = r.tbl
           /\ queue' = PublishAll(queue, r.out)
           /\ IF r.err
              THEN /\ Len(orderErrors) < MaxOrderErrors
                   /\ orderErrors' = Append(orderErrors, "CreateOrder")
              ELSE UNCHANGED orderErrors
    /\ UNCHANGED <<sagas, starting, hist, dups>>
    /\ UNCHANGED participantVars
    /\ UNCHANGED <<deliveries, dead, settled, loaded, workers, crashes, broker>>

\* GetOrderByID, the switch on the event type, UpdateOrder
ProcessSagaCompletionEvent(tbl, event) ==
    IF event.order \notin DOMAIN tbl \/ tbl[event.order].status = "none"
    THEN [tbl |-> tbl, err |-> TRUE]
    ELSE IF event.type = "order.completed"
    THEN UpdateOrder(tbl, event.order,
                     [tbl[event.order] EXCEPT !.status = "completed"])
    ELSE IF event.type = "order.cancelled"
    THEN UpdateOrder(tbl, event.order,
                     [tbl[event.order] EXCEPT
                          !.status = "cancelled",
                          !.failure_reason =
                              IF Get(event.payload, "reason") # Nil
                              THEN Get(event.payload, "reason") ELSE @])
    ELSE [tbl |-> tbl, err |-> TRUE]

\* the consumer leaves a delivery whose handler returned an error in the
\* queue
OrderHandleSagaEvent(e) ==
    /\ Delivered(e, "order-service")
    /\ LET r == ProcessSagaCompletionEvent(orders, e)
       IN  /\ orders' = r.tbl
           /\ queue' = Settle(queue, e, r.err)
           /\ IF r.err
              THEN /\ Len(orderErrors) < MaxOrderErrors
                   /\ orderErrors' = Append(orderErrors, e.type)
              ELSE UNCHANGED orderErrors
    /\ UNCHANGED <<sagas, starting, hist, dups>>
    /\ UNCHANGED participantVars
    /\ UNCHANGED <<deliveries, dead, settled, loaded, workers, crashes, broker>>

----------------------------------------------------------------------------
\* Inventory service (inventory-service/internal/domain, repository, service)
\* The inventory database is the pair of its tables: products by id, and the
\* rows of inventory_reservations in insertion order.

Products == {"A", "B"}

InventoryDB(prods, res) == [products |-> prods, reservations |-> res]

CanReserve(product, quantity) ==
    product.stock - product.reserved_stock >= quantity

Reserve(product, quantity) ==
    IF CanReserve(product, quantity)
    THEN [product EXCEPT !.reserved_stock = @ + quantity]
    ELSE product

ReleaseUnguarded(product, quantity) ==
    [product EXCEPT !.reserved_stock = @ - quantity]

Release(product, quantity) ==
    IF product.reserved_stock >= quantity
    THEN [product EXCEPT !.reserved_stock = @ - quantity]
    ELSE product

NewReservationAggregate(orderID, productID, sagaID, quantity) ==
    [order |-> orderID, product |-> productID, saga |-> sagaID,
     quantity |-> quantity, status |-> "reserved"]

ReservationRelease(reservation) == [reservation EXCEPT !.status = "released"]

ProductFound(db, productID) == productID \in DOMAIN db.products

GetProductByID(db, productID) == db.products[productID]

UpdateProduct(db, productID, product) ==
    [db EXCEPT !.products[productID] = product]

CreateReservation(db, reservation) ==
    [db EXCEPT !.reservations = Append(@, reservation)]

UpdateReservation(db, i, reservation) ==
    [db EXCEPT !.reservations[i].status = reservation.status]

\* the rows of the saga, as positions in the table, in insertion order
GetReservationsBySagaID(db, sagaID) ==
    SelectSeq([i \in DOMAIN db.reservations |-> i],
              LAMBDA i : db.reservations[i].saga = sagaID)

InventoryReserveRequest(sagaID, orderID, items) ==
    [saga |-> sagaID, order |-> orderID, items |-> items]

InventoryReleaseRequest(sagaID, orderID) == [saga |-> sagaID, order |-> orderID]

publishInventoryReservedEvent(request) ==
    Event("inventory.reserved", request.saga, request.order,
          "inventory-service", [reservations |-> "reservations"])

publishInventoryFailedEvent(request, productID, reason) ==
    Event("inventory.failed", request.saga, request.order,
          "inventory-service",
          [order_id |-> "order", product_id |-> productID, reason |-> reason])

publishInventoryReleasedEvent(request) ==
    Event("inventory.released", request.saga, request.order,
          "inventory-service",
          [order_id |-> "order", reservation_ids |-> "reservations"])

RECURSIVE ReserveItems(_, _, _)
\* the loop of ReserveInventory from item i on: the first item that cannot
\* be reserved ends the call with inventory.failed
ReserveItems(db, request, i) ==
    IF i > Len(request.items)
    THEN [db |-> db, out |-> <<publishInventoryReservedEvent(request)>>]
    ELSE LET item == request.items[i]
         IN  IF ~ProductFound(db, item.product)
             THEN [db |-> db,
                   out |-> <<publishInventoryFailedEvent(
                                 request, item.product, "Product not found")>>]
             ELSE IF ~CanReserve(GetProductByID(db, item.product),
                                 item.quantity)
             THEN [db |-> db,
                   out |-> <<publishInventoryFailedEvent(
                                 request, item.product, "Insufficient stock")>>]
             ELSE ReserveItems(
                      CreateReservation(
                          UpdateProduct(db, item.product,
                              Reserve(GetProductByID(db, item.product),
                                      item.quantity)),
                          NewReservationAggregate(request.order, item.product,
                                                  request.saga, item.quantity)),
                      request, i + 1)

ReserveInventory(db, request) == ReserveItems(db, request, 1)

RECURSIVE ReleaseReservations(_, _)
\* the loop of ReleaseInventory over the rows of the saga
ReleaseReservations(db, rows) ==
    IF rows = <<>> THEN db
    ELSE LET reservation == db.reservations[Head(rows)]
             db2 == IF ProductFound(db, reservation.product)
                    THEN UpdateReservation(
                             UpdateProduct(db, reservation.product,
                                 Release(GetProductByID(db, reservation.product),
                                         reservation.quantity)),
                             Head(rows), ReservationRelease(reservation))
                    ELSE db
         IN  ReleaseReservations(db2, Tail(rows))

ReleaseInventory(db, request) ==
    [db |-> ReleaseReservations(db, GetReservationsBySagaID(db, request.saga)),
     out |-> <<publishInventoryReleasedEvent(request)>>]

----------------------------------------------------------------------------
\* Payment service (payment-service/internal/domain, repository, service)
\* The payments table is the sequence of its rows in insertion order; the id
\* of a payment is its position.

NewPaymentAggregate(orderID, sagaID, amount) ==
    [order |-> orderID, saga |-> sagaID, amount |-> amount,
     status |-> "pending", transaction_id |-> "", refunded_amount |-> 0]

PaymentAggregateProcessPayment(payment, transactionID) ==
    [payment EXCEPT !.status = "completed", !.transaction_id = transactionID]

FailPayment(payment) == [payment EXCEPT !.status = "failed"]

CanRefund(payment) ==
    payment.status = "completed" /\ payment.refunded_amount < payment.amount

GetRemainingRefundAmount(payment) == payment.amount - payment.refunded_amount

\* the aggregate refuses the refund
RefundPaymentError(payment, amount) ==
    \/ payment.status # "completed"
    \/ amount <= 0 \/ amount > payment.amount
    \/ payment.refunded_amount + amount > payment.amount

PaymentAggregateRefundPaymentSubtract(payment, amount) ==
    [payment EXCEPT !.status = "refunded", !.refunded_amount = @ - amount]

PaymentAggregateRefundPayment(payment, amount) ==
    [payment EXCEPT !.status = "refunded", !.refunded_amount = @ + amount]

\* order_id is UNIQUE in payments
CanCreatePayment(tbl, payment) ==
    \A i \in DOMAIN tbl : tbl[i].order # payment.order

CreatePayment(tbl, payment) == Append(tbl, payment)

UpdatePayment(tbl, id, payment) == [tbl EXCEPT ![id] = payment]

PaymentFound(tbl, id) == id \in DOMAIN tbl

\* the payments of the saga, newest first
GetPaymentsBySagaID(tbl, sagaID) ==
    LET rows == SelectSeq([i \in DOMAIN tbl |-> i],
                          LAMBDA i : tbl[i].saga = sagaID)
    IN  [k \in DOMAIN rows |-> rows[Len(rows) + 1 - k]]

PaymentProcessRequest(sagaID, orderID, amount) ==
    [saga |-> sagaID, order |-> orderID, amount |-> amount]

PaymentRefundRequest(sagaID, paymentID, transactionID, amount) ==
    [saga |-> sagaID, payment_id |-> paymentID,
     transaction_id |-> transactionID, amount |-> amount]

publishPaymentProcessedEvent(payment) ==
    Event("payment.processed", payment.saga, payment.order, "payment-service",
          [payment |-> "payment"])

publishPaymentFailedEvent(sagaID, orderID, reason) ==
    Event("payment.failed", sagaID, orderID, "payment-service",
          [order_id |-> "order", reason |-> reason, amount |-> "total_amount"])

publishPaymentRefundedEvent(payment) ==
    Event("payment.refunded", payment.saga, payment.order, "payment-service",
          [payment_id |-> "payment", transaction_id |-> "transaction",
           refund_reference |-> "refund", refunded_amount |-> "total_amount",
           total_refunded |-> "total_amount"])

publishRefundFailedEvent(sagaID, reason) ==
    Event("payment.refund.failed", sagaID, 0, "payment-service",
          [reason |-> reason])

\* success is the answer of the payment gateway
ProcessPayment(tbl, request, success) ==
    LET payment == NewPaymentAggregate(request.order, request.saga,
                                       request.amount)
        id == Len(tbl) + 1
    IN  IF request.amount <= 0
        THEN [tbl |-> tbl,
              out |-> <<publishPaymentFailedEvent(request.saga, request.order,
                            "Invalid payment amount")>>]
        ELSE IF ~CanCreatePayment(tbl, payment)
        THEN [tbl |-> tbl,
              out |-> <<publishPaymentFailedEvent(request.saga, request.order,
                            "Database error")>>]
        ELSE IF ~success
        THEN [tbl |-> UpdatePayment(CreatePayment(tbl, payment), id,
                                    FailPayment(payment)),
              out |-> <<publishPaymentFailedEvent(request.saga, request.order,
                            "Insufficient funds")>>]
        ELSE [tbl |-> UpdatePayment(CreatePayment(tbl, payment), id,
                          PaymentAggregateProcessPayment(payment, "transaction")),
              out |-> <<publishPaymentProcessedEvent(
                            PaymentAggregateProcessPayment(payment,
                                                           "transaction"))>>]

\* the request carries no payment id
NilPaymentID == 0

\* the payment ProcessRefund looks up: err when the lookup by id finds no
\* row, id = NilPaymentID when the variable payment stays nil
RefundLookup(tbl, request) ==
    IF request.payment_id # NilPaymentID
    THEN [err |-> ~PaymentFound(tbl, request.payment_id),
          id |-> request.payment_id]
    ELSE IF request.transaction_id # ""
              /\ GetPaymentsBySagaID(tbl, request.saga) # <<>>
    THEN [err |-> FALSE, id |-> GetPaymentsBySagaID(tbl, request.saga)[1]]
    ELSE [err |-> FALSE, id |-> NilPaymentID]

ProcessRefundUnvalidated(tbl, request, success) ==
    LET id == RefundLookup(tbl, request).id
    IN  IF RefundLookup(tbl, request).err
        THEN [tbl |-> tbl,
              out |-> <<publishRefundFailedEvent(request.saga,
                                                 "Payment not found")>>]
        ELSE IF id = NilPaymentID
        THEN [tbl |-> tbl, out |-> <<>>]
        ELSE IF ~success
        THEN [tbl |-> tbl,
              out |-> <<publishRefundFailedEvent(request.saga,
                            "Refund not allowed for this transaction")>>]
        ELSE [tbl |-> UpdatePayment(tbl, id,
                          PaymentAggregateRefundPayment(tbl[id],
                                                        request.amount)),
              out |-> <<publishPaymentRefundedEvent(tbl[id])>>]

\* success is the answer of the payment gateway; with a nil payment the call
\* of payment.CanRefund() panics and nothing is published
ProcessRefund(tbl, request, success) ==
    LET id == RefundLookup(tbl, request).id
    IN  IF RefundLookup(tbl, request).err
        THEN [tbl |-> tbl,
              out |-> <<publishRefundFailedEvent(request.saga,
                                                 "Payment not found")>>]
        ELSE IF id = NilPaymentID
        THEN [tbl |-> tbl, out |-> <<>>]
        ELSE IF ~CanRefund(tbl[id])
        THEN [tbl |-> tbl,
              out |-> <<publishRefundFailedEvent(request.saga,
                                                 "Payment cannot be refunded")>>]
        ELSE IF request.amount <= 0
                  \/ request.amount > GetRemainingRefundAmount(tbl[id])
        THEN [tbl |-> tbl,
              out |-> <<publishRefundFailedEvent(request.saga,
                                                 "Invalid refund amount")>>]
        ELSE IF ~success
        THEN [tbl |-> tbl,
              out |-> <<publishRefundFailedEvent(request.saga,
                            "Refund not allowed for this transaction")>>]
        ELSE IF RefundPaymentError(tbl[id], request.amount)
        THEN [tbl |-> tbl,
              out |-> <<publishRefundFailedEvent(request.saga,
                                                 "Refund processing error")>>]
        ELSE [tbl |-> UpdatePayment(tbl, id,
                          PaymentAggregateRefundPayment(tbl[id],
                                                        request.amount)),
              out |-> <<publishPaymentRefundedEvent(tbl[id])>>]

\* the type of the event a call published, "panic" when it published none
ReplyType(out) == IF out = <<>> THEN "panic" ELSE out[1].type

\* commands handed to the payment handler directly, in any order and any
\* number of times
PaymentOrders == {1}
PaymentSagas == {1, 2}
PaymentAmounts == {0, 1, 2}
PaymentIDs == {NilPaymentID, 1}

handlePaymentProcessCommand(orderID, amount, success) ==
    /\ Len(payLog) < MaxPaymentCommands
    /\ LET r == ProcessPayment(payments,
                    PaymentProcessRequest(orderID, orderID, amount), success)
       IN  /\ payments' = r.tbl
           /\ payLog' = Append(payLog, [type |-> "payment.process",
                                        ref |-> orderID,
                                        reply |-> ReplyType(r.out)])
    /\ UNCHANGED <<orders, sagas, starting, queue, hist, dups,
                   products, reservations, invLog, shipments, shipLog>>
    /\ UNCHANGED auxVars

\* ProcessPayment when the gateway accepts the payment and UpdatePayment
\* returns an error: the error is logged, the row stays as CreatePayment
\* wrote it, and the success event is published from the aggregate in memory
ProcessPaymentUpdateFails(tbl, request) ==
    LET payment == NewPaymentAggregate(request.order, request.saga,
                                       request.amount)
    IN  [tbl |-> CreatePayment(tbl, payment),
         out |-> <<publishPaymentProcessedEvent(
                       PaymentAggregateProcessPayment(payment,
                                                      "transaction"))>>]

handlePaymentProcessCommandUpdateFails(orderID, amount) ==
    /\ Len(payLog) < MaxPaymentCommands
    /\ LET request == PaymentProcessRequest(orderID, orderID, amount)
           r == ProcessPaymentUpdateFails(payments, request)
       IN  /\ request.amount > 0
           /\ CanCreatePayment(payments,
                  NewPaymentAggregate(request.order, request.saga,
                                      request.amount))
           /\ payments' = r.tbl
           /\ payLog' = Append(payLog, [type |-> "payment.process",
                                        ref |-> orderID,
                                        reply |-> ReplyType(r.out)])
    /\ UNCHANGED <<orders, sagas, starting, queue, hist, dups,
                   products, reservations, invLog, shipments, shipLog>>
    /\ UNCHANGED auxVars

handlePaymentRefundCommand(sagaID, paymentID, transactionID, amount, success) ==
    /\ Len(payLog) < MaxPaymentCommands
    /\ LET r == ProcessRefund(payments,
                    PaymentRefundRequest(sagaID, paymentID, transactionID,
                                         amount), success)
       IN  /\ payments' = r.tbl
           /\ payLog' = Append(payLog, [type |-> "payment.refund",
                                        ref |-> paymentID,
                                        reply |-> ReplyType(r.out)])
    /\ UNCHANGED <<orders, sagas, starting, queue, hist, dups,
                   products, reservations, invLog, shipments, shipLog>>
    /\ UNCHANGED auxVars

----------------------------------------------------------------------------
\* Shipping service (shipping-service/internal/domain, repository, service)
\* The shipments table is a sequence of rows; the id of a shipment is its
\* position.

NilOrderID == 0
NilShipmentID == 0

NewShippingAggregate(orderID, sagaID) ==
    [order |-> orderID, saga |-> sagaID, status |-> "pending",
     failure_reason |-> ""]

ShippingAggregateCreateShipment(shipment) ==
    [shipment EXCEPT !.status = "preparing"]

CanCancel(shipment) == shipment.status \in {"pending", "preparing"}

ShippingAggregateCancelShipment(shipment, reason) ==
    [shipment EXCEPT !.status = "cancelled", !.failure_reason = reason]

\* order_id is UNIQUE in shipments
CanCreateShipment(tbl, shipment) ==
    \A i \in DOMAIN tbl : tbl[i].order # shipment.order

ShippingRepositoryCreateShipment(tbl, shipment) == Append(tbl, shipment)

UpdateShipment(tbl, id, shipment) == [tbl EXCEPT ![id] = shipment]

\* the newest shipment of the order; err when there is none
GetShipmentByOrderID(tbl, orderID) ==
    LET ids == {i \in DOMAIN tbl : tbl[i].order = orderID}
    IN  IF ids = {} THEN [err |-> TRUE, id |-> NilShipmentID]
        ELSE [err |-> FALSE,
              id |-> CHOOSE i \in ids : \A j \in ids : j <= i]

\* the shipments of the saga, newest first
GetShipmentsBySagaID(tbl, sagaID) ==
    LET rows == SelectSeq([i \in DOMAIN tbl |-> i],
                          LAMBDA i : tbl[i].saga = sagaID)
    IN  [k \in DOMAIN rows |-> rows[Len(rows) + 1 - k]]

ShippingCreateRequest(sagaID, orderID) == [saga |-> sagaID, order |-> orderID]

ShippingCancelRequest(sagaID, orderID, shipmentID, reason) ==
    [saga |-> sagaID, order |-> orderID, shipmentID |-> shipmentID,
     reason |-> reason]

publishShippingCreatedEvent(shipment) ==
    Event("shipping.created", shipment.saga, shipment.order,
          "shipping-service", [shipment |-> "shipment"])

publishShippingFailedEvent(sagaID, orderID, reason) ==
    Event("shipping.failed", sagaID, orderID, "shipping-service",
          [order_id |-> "order", reason |-> reason])

publishShippingCancelledEvent(shipment) ==
    Event("shipping.cancelled", shipment.saga, shipment.order,
          "shipping-service",
          [shipment_id |-> "shipment", tracking_id |-> "tracking",
           cancelled_at |-> "time", reason |-> shipment.failure_reason])

publishShippingCancelFailedEvent(sagaID, orderID, reason) ==
    Event("shipping.cancel.failed", sagaID, orderID, "shipping-service",
          [reason |-> reason])

\* ok tells that the draw against the failure rate let the request pass
CreateShipment(tbl, request, ok) ==
    LET shipment == ShippingAggregateCreateShipment(
                        NewShippingAggregate(request.order, request.saga))
    IN  IF ~ok
        THEN [tbl |-> tbl,
              out |-> <<publishShippingFailedEvent(request.saga, request.order,
                            "Shipping provider unavailable")>>]
        ELSE IF ~CanCreateShipment(tbl, shipment)
        THEN [tbl |-> tbl,
              out |-> <<publishShippingFailedEvent(request.saga, request.order,
                            "Failed to create shipment")>>]
        ELSE [tbl |-> ShippingRepositoryCreateShipment(tbl, shipment),
              out |-> <<publishShippingCreatedEvent(shipment)>>]

\* with a shipment id in the request the shipment is looked up by saga id,
\* and the error of that branch stays in a variable of its own; without one
\* it is looked up by order id
CancelShipmentLookup(tbl, request) ==
    IF request.shipmentID # NilShipmentID
    THEN LET rows == GetShipmentsBySagaID(tbl, request.saga)
         IN  [err |-> FALSE,
              id |-> IF rows # <<>> THEN rows[1] ELSE NilShipmentID]
    ELSE GetShipmentByOrderID(tbl, request.order)

\* with a nil shipment the call of shipment.CanCancel() panics and nothing is
\* published
CancelShipment(tbl, request) ==
    LET l == CancelShipmentLookup(tbl, request)
    IN  IF l.err
        THEN [tbl |-> tbl,
              out |-> <<publishShippingCancelFailedEvent(
                            request.saga, request.order,
                            "Shipment not found")>>]
        ELSE IF l.id = NilShipmentID
        THEN [tbl |-> tbl, out |-> <<>>]
        ELSE IF ~CanCancel(tbl[l.id])
        THEN [tbl |-> tbl,
              out |-> <<publishShippingCancelFailedEvent(
                            request.saga, request.order,
                            "Cannot cancel shipment")>>]
        ELSE LET shipment == ShippingAggregateCancelShipment(tbl[l.id],
                                                             request.reason)
             IN  [tbl |-> UpdateShipment(tbl, l.id, shipment),
                  out |-> <<publishShippingCancelledEvent(shipment)>>]

\* commands handed to the shipping handler directly, in any order and any
\* number of times
ShippingSagas == {1, 2}
ShippingOrders == {NilOrderID, 1}
ShipmentIDs == {NilShipmentID, 1}

handleShippingCreateCommand(sagaID, orderID, ok) ==
    /\ Len(shipLog) < MaxShippingCommands
    /\ LET r == CreateShipment(shipments,
                               ShippingCreateRequest(sagaID, orderID), ok)
       IN  /\ shipments' = r.tbl
           /\ shipLog' = Append(shipLog, [type |-> "shipping.create",
                                          request |->
                                              ShippingCancelRequest(
                                                  sagaID, orderID,
                                                  NilShipmentID, ""),
                                          ok |-> ok,
                                          reply |-> ReplyType(r.out)])
    /\ UNCHANGED <<orders, sagas, starting, queue, hist, dups,
                   products, reservations, invLog, payments, payLog>>
    /\ UNCHANGED auxVars

handleShippingCancelCommand(sagaID, orderID, shipmentID) ==
    /\ Len(shipLog) < MaxShippingCommands
    /\ LET request == ShippingCancelRequest(sagaID, orderID, shipmentID,
                                            "reason")
           r == CancelShipment(shipments, request)
       IN  /\ shipments' = r.tbl
           /\ shipLog' = Append(shipLog, [type |-> "shipping.cancel",
                                          request |-> request,
                                          reply |-> ReplyType(r.out)])
    /\ UNCHANGED <<orders, sagas, starting, queue, hist, dups,
                   products, reservations, invLog, payments, payLog>>
    /\ UNCHANGED auxVars

----------------------------------------------------------------------------
\* Orchestrator: StartSaga and the event handler

NewSaga(o) ==
    [id |-> OrchSagaID(o), order_id |-> o, status |-> SagaStatusStarted,
     current_step |-> StepOrderCreated,
     completed_steps |-> <<StepOrderCreated>>, compensated_steps |-> <<>>,
     failure_reason |-> "", context |-> EmptyContext, completed_at |-> FALSE]

\* StartSaga up to the INSERT of the new instance
StartSagaCreate(o) ==
    /\ CanCreateSaga(sagas, NewSaga(o))
    /\ sagas' = CreateSaga(sagas, NewSaga(o))
    /\ starting' = starting \cup {OrchSagaID(o)}
    /\ UNCHANGED <<orders, queue, hist, dups>>
    /\ UNCHANGED participantVars
    /\ UNCHANGED auxVars

\* StartSaga from processNextStep on
StartSagaNext(id) ==
    /\ id \in starting
    /\ LET r == processNextStep(sagas, GetSagaByID(sagas, id))
       IN  /\ sagas' = r.db
           /\ queue' = PublishAll(queue, r.out)
           /\ hist' = [hist EXCEPT ![id] = @ \o Types(r.out)]
    /\ starting' = starting \ {id}
    /\ UNCHANGED <<orders, dups>>
    /\ UNCHANGED participantVars
    /\ UNCHANGED auxVars

\* EventHandler.HandleSagaEvent under Consumer.handleMessage
OrchestratorHandleSagaEvent(e) ==
    /\ Delivered(e, "saga-orchestrator")
    /\ Len(hist[e.saga]) + 2 <= MaxHist
    /\ LET r == ProcessIncomingEvent(sagas, e)
       IN  /\ sagas' = r.db
           /\ queue' = PublishAll(Settle(queue, e, r.err), r.out)
           /\ hist' = [hist EXCEPT ![e.saga] =
                           @ \o <<<<"in", e.type>>>> \o Types(r.out)]
    /\ UNCHANGED <<orders, starting, dups>>
    /\ UNCHANGED participantVars
    /\ UNCHANGED auxVars

----------------------------------------------------------------------------
\* Participants: each command is answered with a reply event that carries
\* the saga id of the command.

Reply(e, type, service, payload) ==
    Event(type, e.saga, e.order, service, payload)

\* the total of the order, as StartSaga put it in the saga context and the
\* orchestrator copies it into the amount of its payment commands
TotalAmount == 2

mapToPaymentProcessRequest(e) ==
    PaymentProcessRequest(e.saga, e.order, TotalAmount)

\* a payment_id or transaction_id that is null in the payload leaves the
\* field of the request at its zero value
mapToPaymentRefundRequest(e) ==
    PaymentRefundRequest(e.saga,
        IF Get(e.payload, "payment_id") = Nil
        THEN NilPaymentID ELSE Get(e.payload, "payment_id"),
        IF Get(e.payload, "transaction_id") = Nil
        THEN "" ELSE Get(e.payload, "transaction_id"),
        TotalAmount)

\* PaymentHandler.HandleSagaEvent under Consumer.handleMessage; when the
\* service panics the process dies before the delivery is settled, and the
\* broker keeps the message
PaymentHandleSagaEvent(e) ==
    /\ Delivered(e, "payment-service")
    /\ \E success \in BOOLEAN :
         LET r == IF e.type = "payment.process"
                  THEN ProcessPayment(payments,
                                      mapToPaymentProcessRequest(e), success)
                  ELSE ProcessRefund(payments,
                                     mapToPaymentRefundRequest(e), success)
         IN  /\ payments' = r.tbl
             /\ queue' = IF ReplyType(r.out) = "panic" THEN queue
                         ELSE PublishAll(Ack(queue, e), r.out)
    /\ UNCHANGED <<orders, sagas, starting, hist, dups,
                   products, reservations, invLog, payLog, shipments, shipLog>>
    /\ UNCHANGED auxVars

\* the items of the order, as StartSaga put them in the saga context and
\* sendStepEvent copies them into the command
OrderItems ==
    <<[product |-> "A", quantity |-> 1], [product |-> "B", quantity |-> 1]>>

\* InventoryHandler.HandleSagaEvent: ReserveInventory / ReleaseInventory on
\* the tables of the inventory service
InventoryHandleSagaEvent(e) ==
    /\ Delivered(e, "inventory-service")
    /\ LET db == InventoryDB(products, reservations)
           r  == IF e.type = "inventory.reserve"
                 THEN ReserveInventory(db,
                          InventoryReserveRequest(e.saga, e.order, OrderItems))
                 ELSE ReleaseInventory(db,
                          InventoryReleaseRequest(e.saga, e.order))
       IN  /\ products' = r.db.products
           /\ reservations' = r.db.reservations
           /\ queue' = PublishAll(Ack(queue, e), r.out)
    /\ UNCHANGED <<orders, sagas, starting, hist, dups, invLog,
                   payments, payLog, shipments, shipLog>>
    /\ UNCHANGED auxVars

\* commands handed to the inventory handler directly, in any order and any
\* number of times
InventorySagas == {1, 2}
ItemLists ==
    {OrderItems, <<[product |-> "A", quantity |-> 1]>>,
     <<[product |-> "B", quantity |-> 2]>>}

handleInventoryReserveCommand(sagaID, items) ==
    /\ Len(invLog) < MaxCommands
    /\ LET r == ReserveInventory(InventoryDB(products, reservations),
                    InventoryReserveRequest(sagaID, sagaID, items))
       IN  /\ products' = r.db.products
           /\ reservations' = r.db.reservations
           /\ invLog' = Append(invLog, [type |-> "inventory.reserve",
                                        saga |-> sagaID,
                                        reply |-> r.out[1].type])
    /\ UNCHANGED <<orders, sagas, starting, queue, hist, dups,
                   payments, payLog, shipments, shipLog>>
    /\ UNCHANGED auxVars

handleInventoryReleaseCommand(sagaID) ==
    /\ Len(invLog) < MaxCommands
    /\ LET r == ReleaseInventory(InventoryDB(products, reservations),
                    InventoryReleaseRequest(sagaID, sagaID))
       IN  /\ products' = r.db.products
           /\ reservations' = r.db.reservations
           /\ invLog' = Append(invLog, [type |-> "inventory.release",
                                        saga |-> sagaID,
                                        reply |-> r.out[1].type])
    /\ UNCHANGED <<orders, sagas, starting, queue, hist, dups,
                   payments, payLog, shipments, shipLog>>
    /\ UNCHANGED auxVars

\* the shipping handler takes order_id and shipment_id from the payload of
\* the command; a key that is absent or null leaves the zero id
mapToShippingCreateRequest(e) ==
    ShippingCreateRequest(e.saga,
        IF Get(e.payload, "order_id") = Nil THEN NilOrderID ELSE e.order)

mapToShippingCancelRequest(e) ==
    ShippingCancelRequest(e.saga,
        IF Get(e.payload, "order_id") = Nil THEN NilOrderID ELSE e.order,
        IF Get(e.payload, "shipment_id") = Nil THEN NilShipmentID ELSE 1,
        IF Get(e.payload, "reason") = Nil THEN "" ELSE Get(e.payload, "reason"))

\* ShippingHandler.HandleSagaEvent; ok tells that the shipping provider is
\* available; a handler that panicked has acknowledged nothing
ShippingHandleSagaEvent(e) ==
    /\ Delivered(e, "shipping-service")
    /\ \E ok \in BOOLEAN :
         LET r == IF e.type = "shipping.create"
                  THEN CreateShipment(shipments,
                                      mapToShippingCreateRequest(e), ok)
                  ELSE CancelShipment(shipments, mapToShippingCancelRequest(e))
         IN  /\ shipments' = r.tbl
             /\ queue' = IF ReplyType(r.out) = "panic" THEN queue
                         ELSE PublishAll(Ack(queue, e), r.out)
    /\ UNCHANGED <<orders, sagas, starting, hist, dups, products,
                   reservations, invLog, payments, payLog, shipLog>>
    /\ UNCHANGED auxVars

\* NotificationService.SendNotification
NotificationHandleSagaEvent(e) ==
    /\ Delivered(e, "notification-service")
    /\ \E ok \in BOOLEAN :
         LET reply ==
               IF ok
               THEN Reply(e, "notification.sent", "notification-service",
                          [notification |-> "notification"])
               ELSE Reply(e, "notification.failed", "notification-service",
                          [order_id |-> "order",
                           reason |-> "Notification provider unavailable"])
         IN  queue' = PublishAll(Ack(queue, e), <<reply>>)
    /\ UNCHANGED <<orders, sagas, starting, hist, dups>>
    /\ UNCHANGED participantVars
    /\ UNCHANGED auxVars

\* The broker delivers an unacknowledged message once more (at-least-once
\* delivery under manual acknowledgement).
Redeliver(e) ==
    /\ BagIn(e, queue)
    /\ dups < MaxDup
    /\ queue' = queue (+) SetToBag({e})
    /\ dups' = dups + 1
    /\ UNCHANGED <<orders, sagas, starting, hist>>
    /\ UNCHANGED participantVars
    /\ UNCHANGED auxVars

----------------------------------------------------------------------------
\* Consumer (shared-domain/messaging): the queue of the orchestrator with the
\* headers of its messages, under events of any saga id

\* the message PublishSagaEvent builds: its headers hold no x-death entry
\* (xdeath is the count of that entry, 0 when it is absent); valid tells
\* whether the body decodes to a SagaEvent; republished counts how often
\* republishWithRetry has published the message again
Message(e, valid) ==
    [event |-> e, valid |-> valid, xdeath |-> 0, republished |-> 0]

shouldRetry(msg) == ~(msg.xdeath >= 3)

\* the message is published again with the headers of the delivery, and the
\* delivery is acknowledged
republishWithRetry(q, msg) ==
    (q (-) SetToBag({msg}))
        (+) SetToBag({[msg EXCEPT !.republished = @ + 1]})

\* the events a producer may publish to the orchestrator
InboundEvents ==
    {Event("payment.processed", id, 1, "payment-service",
           [payment |-> "payment"]) : id \in SagaIDs}
        \cup {OrderCreated(o) : o \in Orders}

PublishSagaEvent(e, valid) ==
    /\ BagCardinality(deliveries) < MaxInbox
    /\ deliveries' = deliveries (+) SetToBag({Message(e, valid)})
    /\ UNCHANGED <<orders, sagas, starting, queue, hist, dups, dead, settled>>
    /\ UNCHANGED <<participantVars, loaded, workers, crashes, orderErrors, broker>>

\* the broker delivers a message that carries an x-death header with a
\* count of 3, the header shouldRetry reads
DeadLetterDelivery(e) ==
    /\ BagCardinality(deliveries) < MaxInbox
    /\ deliveries' = deliveries (+) SetToBag({[Message(e, TRUE) EXCEPT !.xdeath = 3]})
    /\ UNCHANGED <<orders, sagas, starting, queue, hist, dups, dead, settled>>
    /\ UNCHANGED <<participantVars, loaded, workers, crashes, orderErrors, broker>>

\* the steps handleMessage goes through for a delivery: whether the handler
\* ran and what it returned, whether the message was published again and how
\* that went; published tells that the channel accepts a publish
HandlerOutcome(msg, err) ==
    IF ~msg.valid THEN "skipped" ELSE IF err THEN "failed" ELSE "ok"

RepublishOutcome(msg, err, published) ==
    IF msg.valid /\ err /\ shouldRetry(msg)
    THEN IF published THEN "ok" ELSE "failed"
    ELSE "none"

\* the calls of Ack and Nack(false, false) handleMessage and
\* republishWithRetry make on the delivery
SettlementUnsettledOnPublishError(msg, err, published) ==
    IF ~msg.valid THEN <<"nack">>
    ELSE IF ~err THEN <<"ack">>
    ELSE IF shouldRetry(msg)
    THEN IF published THEN <<"ack">> ELSE <<>>
    ELSE <<"nack">>

Settlement(msg, err, published) ==
    IF ~msg.valid THEN <<"nack">>
    ELSE IF ~err THEN <<"ack">>
    ELSE IF shouldRetry(msg)
    THEN IF published THEN <<"ack">> ELSE <<"nack">>
    ELSE <<"nack">>

handleMessage(msg) ==
    /\ BagIn(msg, deliveries)
    /\ \E published \in BOOLEAN :
         LET r == ProcessIncomingEvent(sagas, msg.event)
             republish == RepublishOutcome(msg, r.err, published)
             calls == Settlement(msg, r.err, published)
         IN  /\ IF msg.valid
                THEN /\ sagas' = r.db
                     /\ queue' = PublishAll(queue, r.out)
                ELSE UNCHANGED <<sagas, queue>>
             /\ republish = "ok" => msg.republished < MaxRepublish
             /\ deliveries' =
                    IF republish = "ok"
                    THEN republishWithRetry(deliveries, msg)
                    ELSE deliveries (-) SetToBag({msg})
             /\ dead' = IF \E i \in DOMAIN calls : calls[i] = "nack"
                        THEN dead \cup {msg.event} ELSE dead
             /\ settled' = <<[valid |-> msg.valid,
                              xdeath |-> msg.xdeath,
                              handler |-> HandlerOutcome(msg, r.err),
                              republish |-> republish,
                              calls |-> calls]>>
    /\ UNCHANGED <<orders, starting, hist, dups>>
    /\ UNCHANGED <<participantVars, loaded, workers, crashes, orderErrors, broker>>

----------------------------------------------------------------------------
\* RabbitMQClient (shared-domain/messaging/rabbitmq.go) of the orchestrator.
\* Channels are numbered in the order Connect opens them.  broker.exchange is
\* the channel the exchange was last declared on, broker.consumer the channel
\* the subscription of ConsumeEvents lives on; the durable queue and its
\* bindings stay at the broker.  broker.watching tells that a
\* handleReconnection goroutine waits for the connection to close.  Init is
\* the state after main has run Connect and StartConsuming.

\* dialled tells whether amqp.Dial succeeds within RetryCount attempts
Connect(b, dialled) ==
    IF dialled
    THEN [b EXCEPT !.connected = TRUE, !.channel = @ + 1,
                   !.exchange = b.channel + 1, !.watching = TRUE]
    ELSE b

\* the subscription the consumer goroutine reads from
Subscribed == broker.connected /\ broker.consumer = broker.channel

\* the connection closes: the channel and the subscription on it are gone
ConnectionLost ==
    /\ broker.connected
    /\ broker.lost < MaxReconnect
    /\ broker' = [broker EXCEPT !.connected = FALSE, !.lost = @ + 1]
    /\ UNCHANGED <<orders, sagas, starting, queue, hist, dups>>
    /\ UNCHANGED participantVars
    /\ UNCHANGED <<deliveries, dead, settled, loaded, workers, crashes,
                   orderErrors>>

handleReconnection(dialled) ==
    /\ broker.watching
    /\ ~broker.connected
    /\ broker' = Connect([broker EXCEPT !.watching = FALSE], dialled)
    /\ UNCHANGED <<orders, sagas, starting, queue, hist, dups>>
    /\ UNCHANGED participantVars
    /\ UNCHANGED <<deliveries, dead, settled, loaded, workers, crashes,
                   orderErrors>>

\* the goroutine of ConsumeEvents hands a delivery of its subscription to
\* handleMessage
ConsumeEvents(msg) ==
    /\ Subscribed
    /\ handleMessage(msg)

----------------------------------------------------------------------------
\* Two instances of the orchestrator consume from the same queue.  A handler
\* reads the saga row (GetSagaByID) and later writes the whole row back
\* (UpdateSaga); the other instance may run between the two.

\* the handler of the event calls UpdateSaga
WritesSaga(db, event) ==
    /\ ~ProcessIncomingEvent(db, event).err
    /\ \/ SuccessStepOf(event.type) # ""
       \/ FailedStepOf(event.type) # ""
       \/ CompensationStepOf(event.type) # ""

\* the deliveries of e that instances hold unacknowledged
Held(e) == Cardinality({i \in Instances :
                          loaded[i].busy /\ loaded[i].event = e})

\* the instance takes a delivery and reads the saga
OrchestratorRead(i, e) ==
    /\ Delivered(e, "saga-orchestrator")
    /\ ~loaded[i].busy
    /\ Held(e) < CopiesIn(e, queue)
    /\ Len(hist[e.saga]) + 2 <= MaxHist
    /\ loaded' = [loaded EXCEPT ![i] =
                      [busy |-> TRUE, event |-> e, db |-> sagas]]
    /\ UNCHANGED <<orders, sagas, starting, queue, hist, dups>>
    /\ UNCHANGED <<participantVars, deliveries, dead, settled, workers, crashes, orderErrors, broker>>

\* the instance finishes the handler on the row it read: UpdateSaga writes
\* the row, the events are published and the delivery is settled
OrchestratorWrite(i) ==
    /\ loaded[i].busy
    /\ LET e == loaded[i].event
           r == ProcessIncomingEvent(loaded[i].db, e)
       IN  /\ sagas' = IF WritesSaga(loaded[i].db, e)
                       THEN [sagas EXCEPT ![e.saga] = r.db[e.saga]]
                       ELSE sagas
           /\ queue' = PublishAll(Settle(queue, e, r.err), r.out)
           /\ hist' = [hist EXCEPT ![e.saga] =
                           @ \o <<<<"in", e.type>>>> \o Types(r.out)]
    /\ loaded' = [loaded EXCEPT ![i] = Idle]
    /\ UNCHANGED <<orders, starting, dups>>
    /\ UNCHANGED <<participantVars, deliveries, dead, settled, workers, crashes, orderErrors, broker>>

----------------------------------------------------------------------------
\* Two workers of the inventory service handle inventory.reserve commands at
\* the same time.  For each item ReserveInventory reads the product
\* (GetProductByID) and later writes stock and reserved_stock back
\* (UpdateProduct); the other worker may run between the two.

NoProduct == [stock |-> 0, reserved_stock |-> 0]

\* the worker has finished its command with the reply
ReserveDone(w, reply) ==
    /\ workers' = [workers EXCEPT ![w] = Idle]
    /\ invLog' = Append(invLog, [type |-> "inventory.reserve",
                                 saga |-> workers[w].request.saga,
                                 reply |-> reply])

reserveStart(w, sagaID, items) ==
    /\ ~workers[w].busy
    /\ Len(invLog) + Cardinality({v \in Instances : workers[v].busy})
           < MaxCommands
    /\ workers' = [workers EXCEPT ![w] =
                       [busy |-> TRUE,
                        request |-> InventoryReserveRequest(sagaID, sagaID,
                                                            items),
                        i |-> 1, read |-> FALSE, product |-> NoProduct]]
    /\ UNCHANGED <<orders, sagas, starting, queue, hist, dups>>
    /\ UNCHANGED <<participantVars, deliveries, dead, settled, loaded, crashes, orderErrors, broker>>

\* GetProductByID for the item the loop stands at
reserveGetProduct(w) ==
    /\ workers[w].busy /\ ~workers[w].read
    /\ LET item == workers[w].request.items[workers[w].i]
           db == InventoryDB(products, reservations)
       IN  IF ~ProductFound(db, item.product)
           THEN ReserveDone(w, "inventory.failed")
           ELSE /\ workers' = [workers EXCEPT
                                  ![w].read = TRUE,
                                  ![w].product =
                                      GetProductByID(db, item.product)]
                /\ invLog' = invLog
    /\ UNCHANGED <<orders, sagas, starting, queue, hist, dups>>
    /\ UNCHANGED <<products, reservations, payments, payLog, shipments, shipLog>>
    /\ UNCHANGED <<deliveries, dead, settled, loaded, crashes, orderErrors, broker>>

\* CanReserve and Reserve on the product read, UpdateProduct,
\* CreateReservation, and the step of the loop
reserveUpdateProduct(w) ==
    /\ workers[w].busy /\ workers[w].read
    /\ LET request == workers[w].request
           item == request.items[workers[w].i]
           db == InventoryDB(products, reservations)
           db2 == CreateReservation(
                      UpdateProduct(db, item.product,
                                    Reserve(workers[w].product,
                                            item.quantity)),
                      NewReservationAggregate(request.order, item.product,
                                              request.saga, item.quantity))
       IN  IF ~CanReserve(workers[w].product, item.quantity)
           THEN /\ ReserveDone(w, "inventory.failed")
                /\ UNCHANGED <<products, reservations>>
           ELSE /\ products' = db2.products
                /\ reservations' = db2.reservations
                /\ IF workers[w].i = Len(request.items)
                   THEN ReserveDone(w, "inventory.reserved")
                   ELSE /\ workers' = [workers EXCEPT ![w].i = @ + 1,
                                                      ![w].read = FALSE]
                        /\ invLog' = invLog
    /\ UNCHANGED <<orders, sagas, starting, queue, hist, dups>>
    /\ UNCHANGED <<payments, payLog, shipments, shipLog, deliveries, dead, settled, loaded, crashes, orderErrors, broker>>

----------------------------------------------------------------------------
\* A publish of the orchestrator that fails.  processNextStep,
\* startCompensation, completeSaga and compensationCompleted call UpdateSaga
\* first and publish afterwards; PublishSagaEvent returns an error when the
\* connection is down or the channel refuses the message.

\* what a handler with the result r leaves behind when its publish fails
PublishFailsUnsaved(db, r) == Result(db, <<>>, TRUE)

PublishFails(db, r) == Result(r.db, <<>>, TRUE)

\* the handler runs up to the publish, the publish fails, the handler
\* returns the error and the delivery is retried
OrchestratorPublishFails(e) ==
    /\ Delivered(e, "saga-orchestrator")
    /\ Len(hist[e.saga]) + 2 <= MaxHist
    /\ LET r == ProcessIncomingEvent(sagas, e)
           f == PublishFails(sagas, r)
       IN  /\ ~r.err
           /\ r.out # <<>>
           /\ sagas' = f.db
           /\ queue' = PublishAll(Settle(queue, e, f.err), f.out)
           /\ hist' = [hist EXCEPT ![e.saga] =
                           @ \o <<<<"in", e.type>>, <<"fail", r.out[1].type>>>>]
    /\ UNCHANGED <<orders, starting, dups>>
    /\ UNCHANGED participantVars
    /\ UNCHANGED auxVars

----------------------------------------------------------------------------
\* Crash and restart of the orchestrator.  main connects and starts the
\* consumer; it reads no saga at startup, so after the restart the process
\* knows what the broker delivers and nothing else.

\* the process dies in StartSaga between CreateSaga and processNextStep
StartSagaCrash(id) ==
    /\ id \in starting
    /\ crashes < MaxCrash
    /\ starting' = starting \ {id}
    /\ crashes' = crashes + 1
    /\ UNCHANGED <<orders, sagas, queue, hist, dups>>
    /\ UNCHANGED <<participantVars, deliveries, dead, settled, loaded, workers,
                   orderErrors, broker>>

\* the process dies in a handler between UpdateSaga and the publish: the row
\* is written, nothing is published, the delivery stays unacknowledged and
\* the broker delivers it again after the restart
OrchestratorHandleCrash(e) ==
    /\ Delivered(e, "saga-orchestrator")
    /\ crashes < MaxCrash
    /\ Len(hist[e.saga]) + 2 <= MaxHist
    /\ WritesSaga(sagas, e)
    /\ sagas' = ProcessIncomingEvent(sagas, e).db
    /\ hist' = [hist EXCEPT ![e.saga] = Append(@, <<"in", e.type>>)]
    /\ crashes' = crashes + 1
    /\ UNCHANGED <<orders, starting, queue, dups>>
    /\ UNCHANGED <<participantVars, deliveries, dead, settled, loaded, workers,
                   orderErrors, broker>>

----------------------------------------------------------------------------

\* the stock a product starts with
StockLevels == {0, 1, 2}

Init ==
    /\ orders = [o \in Orders |-> NoOrder]
    /\ sagas = [id \in SagaIDs |-> NoRow]
    /\ starting = {}
    /\ queue = EmptyBag
    /\ hist = [id \in SagaIDs |-> <<>>]
    /\ dups = 0
    /\ products \in {[p \in Products |->
                         [stock |-> st[p], reserved_stock |-> 0]] :
                     st \in [Products -> StockLevels]}
    /\ reservations = <<>>
    /\ invLog = <<>>
    /\ payments = <<>>
    /\ payLog = <<>>
    /\ shipments = <<>>
    /\ shipLog = <<>>
    /\ deliveries = EmptyBag
    /\ dead = {}
    /\ settled = <<>>
    /\ loaded = [i \in Instances |-> Idle]
    /\ workers = [w \in Instances |-> Idle]
    /\ crashes = 0
    /\ broker = [connected |-> TRUE, channel |-> 1, exchange |-> 1,
                 consumer |-> 1, watching |-> TRUE, lost |-> 0]
    /\ orderErrors = <<>>

InFlight == BagToSet(queue)

Next ==
    \/ \E o \in Orders : CreateOrder(o)
    \/ \E o \in Orders : StartSagaCreate(o)
    \/ \E id \in SagaIDs : StartSagaNext(id)
    \/ \E e \in InFlight : OrchestratorHandleSagaEvent(e)
    \/ \E e \in InFlight : PaymentHandleSagaEvent(e)
    \/ \E e \in InFlight : InventoryHandleSagaEvent(e)
    \/ \E e \in InFlight : ShippingHandleSagaEvent(e)
    \/ \E e \in InFlight : NotificationHandleSagaEvent(e)
    \/ \E e \in InFlight : OrderHandleSagaEvent(e)
    \/ \E e \in InFlight : Redeliver(e)

Spec == Init /\ [][Next]_vars

\* The consumer loops and a started StartSaga keep running; nothing obliges
\* a client to create orders or the broker to redeliver.
Fairness ==
    /\ WF_vars(\E id \in SagaIDs : StartSagaNext(id))
    /\ WF_vars(\E e \in InFlight : OrchestratorHandleSagaEvent(e))
    /\ WF_vars(\E e \in InFlight : PaymentHandleSagaEvent(e))
    /\ WF_vars(\E e \in InFlight : InventoryHandleSagaEvent(e))
    /\ WF_vars(\E e \in InFlight : ShippingHandleSagaEvent(e))
    /\ WF_vars(\E e \in InFlight : NotificationHandleSagaEvent(e))
    /\ WF_vars(\E e \in InFlight : OrderHandleSagaEvent(e))

\* fair delivery: the broker hands every message to its consumer once; what
\* redelivery adds is covered by Spec
FairNext ==
    \/ \E o \in Orders : CreateOrder(o)
    \/ \E o \in Orders : StartSagaCreate(o)
    \/ \E id \in SagaIDs : StartSagaNext(id)
    \/ \E e \in InFlight : OrchestratorHandleSagaEvent(e)
    \/ \E e \in InFlight : PaymentHandleSagaEvent(e)
    \/ \E e \in InFlight : InventoryHandleSagaEvent(e)
    \/ \E e \in InFlight : ShippingHandleSagaEvent(e)
    \/ \E e \in InFlight : NotificationHandleSagaEvent(e)
    \/ \E e \in InFlight : OrderHandleSagaEvent(e)

FairSpec == Init /\ [][FairNext]_vars /\ Fairness

\* the inventory handler under commands that arrive in any interleaving
InventoryNext ==
    \/ \E sagaID \in InventorySagas : \E items \in ItemLists :
           handleInventoryReserveCommand(sagaID, items)
    \/ \E sagaID \in InventorySagas : handleInventoryReleaseCommand(sagaID)

InventorySpec == Init /\ [][InventoryNext]_vars

\* the payment handler under commands that arrive in any interleaving
PaymentNext ==
    \/ \E orderID \in PaymentOrders : \E amount \in PaymentAmounts :
           \E success \in BOOLEAN :
               handlePaymentProcessCommand(orderID, amount, success)
    \/ \E sagaID \in PaymentSagas : \E paymentID \in PaymentIDs :
           \E transactionID \in {"", "transaction"} :
               \E amount \in PaymentAmounts : \E success \in BOOLEAN :
                   handlePaymentRefundCommand(sagaID, paymentID, transactionID,
                                              amount, success)

PaymentSpec == Init /\ [][PaymentNext]_vars

\* the payment service under updates of the payments table that may fail
PaymentUpdateFailNext ==
    \/ PaymentNext
    \/ \E orderID \in PaymentOrders : \E amount \in PaymentAmounts :
           handlePaymentProcessCommandUpdateFails(orderID, amount)

PaymentUpdateFailSpec == Init /\ [][PaymentUpdateFailNext]_vars

\* the shipping service alone, under any commands
ShippingNext ==
    \/ \E sagaID \in ShippingSagas : \E orderID \in ShippingOrders :
           \E ok \in BOOLEAN : handleShippingCreateCommand(sagaID, orderID, ok)
    \/ \E sagaID \in ShippingSagas : \E orderID \in ShippingOrders :
           \E shipmentID \in ShipmentIDs :
               handleShippingCancelCommand(sagaID, orderID, shipmentID)

ShippingSpec == Init /\ [][ShippingNext]_vars

\* the consumer of the orchestrator under events of known and unknown sagas
ConsumerNext ==
    \/ \E e \in InboundEvents : \E valid \in BOOLEAN :
           PublishSagaEvent(e, valid)
    \/ \E e \in InboundEvents : DeadLetterDelivery(e)
    \/ \E msg \in BagToSet(deliveries) : handleMessage(msg)

ConsumerSpec == Init /\ [][ConsumerNext]_vars

\* the consumer of the orchestrator under losses of the connection
ReconnectNext ==
    \/ \E e \in InboundEvents : \E valid \in BOOLEAN :
           PublishSagaEvent(e, valid)
    \/ \E msg \in BagToSet(deliveries) : ConsumeEvents(msg)
    \/ ConnectionLost
    \/ \E dialled \in BOOLEAN : handleReconnection(dialled)

ReconnectSpec == Init /\ [][ReconnectNext]_vars

\* the system with two orchestrator instances
ConcurrentNext ==
    \/ \E o \in Orders : CreateOrder(o)
    \/ \E o \in Orders : StartSagaCreate(o)
    \/ \E id \in SagaIDs : StartSagaNext(id)
    \/ \E i \in Instances : \E e \in InFlight : OrchestratorRead(i, e)
    \/ \E i \in Instances : OrchestratorWrite(i)
    \/ \E e \in InFlight : PaymentHandleSagaEvent(e)
    \/ \E e \in InFlight : InventoryHandleSagaEvent(e)
    \/ \E e \in InFlight : ShippingHandleSagaEvent(e)
    \/ \E e \in InFlight : NotificationHandleSagaEvent(e)
    \/ \E e \in InFlight : OrderHandleSagaEvent(e)
    \/ \E e \in InFlight : Redeliver(e)

ConcurrentSpec == Init /\ [][ConcurrentNext]_vars

\* the system with crashes of the orchestrator
CrashNext ==
    \/ \E o \in Orders : CreateOrder(o)
    \/ \E o \in Orders : StartSagaCreate(o)
    \/ \E id \in SagaIDs : StartSagaNext(id)
    \/ \E id \in SagaIDs : StartSagaCrash(id)
    \/ \E e \in InFlight : OrchestratorHandleSagaEvent(e)
    \/ \E e \in InFlight : OrchestratorHandleCrash(e)
    \/ \E e \in InFlight : PaymentHandleSagaEvent(e)
    \/ \E e \in InFlight : InventoryHandleSagaEvent(e)
    \/ \E e \in InFlight : ShippingHandleSagaEvent(e)
    \/ \E e \in InFlight : NotificationHandleSagaEvent(e)
    \/ \E e \in InFlight : OrderHandleSagaEvent(e)
    \/ \E e \in InFlight : Redeliver(e)

CrashSpec == Init /\ [][CrashNext]_vars

\* the orchestrator and the participants with publishes of the orchestrator
\* that fail, each message delivered once
PublishFailNext ==
    \/ \E o \in Orders : StartSagaCreate(o)
    \/ \E id \in SagaIDs : StartSagaNext(id)
    \/ \E e \in InFlight : OrchestratorHandleSagaEvent(e)
    \/ \E e \in InFlight : OrchestratorPublishFails(e)
    \/ \E e \in InFlight : PaymentHandleSagaEvent(e)
    \/ \E e \in InFlight : InventoryHandleSagaEvent(e)
    \/ \E e \in InFlight : ShippingHandleSagaEvent(e)
    \/ \E e \in InFlight : NotificationHandleSagaEvent(e)
    \/ \E e \in InFlight : OrderHandleSagaEvent(e)

PublishFailSpec == Init /\ [][PublishFailNext]_vars

\* the inventory service with two workers under reserve commands
ConcurrentInventoryNext ==
    \/ \E w \in Instances : \E sagaID \in InventorySagas :
           \E items \in ItemLists : reserveStart(w, sagaID, items)
    \/ \E w \in Instances : reserveGetProduct(w)
    \/ \E w \in Instances : reserveUpdateProduct(w)

ConcurrentInventorySpec == Init /\ [][ConcurrentInventoryNext]_vars

----------------------------------------------------------------------------
\* Vocabulary of the properties

ForwardCommand ==
    <<"payment.process", "inventory.reserve", "shipping.create",
      "notification.send">>
ForwardStep ==
    <<StepPaymentProcessed, StepInventoryReserved, StepShippingCreated,
      StepNotificationSent>>
SuccessReply ==
    <<"payment.processed", "inventory.reserved", "shipping.created",
      "notification.sent">>
FailureReply ==
    <<"payment.failed", "inventory.failed", "shipping.failed",
      "notification.failed">>

\* compensation commands in the order the chain sends them, with the forward
\* step each one reverses and its success reply
CompensationCommand ==
    <<"shipping.cancel", "inventory.release", "payment.refund", "order.cancel">>
CompensatedForward ==
    <<StepShippingCreated, StepInventoryReserved, StepPaymentProcessed,
      StepOrderCreated>>
CompensationReply ==
    <<"shipping.cancelled", "inventory.released", "payment.refunded">>
CompensationRefusal ==
    {"shipping.cancel.failed", "inventory.release.failed",
     "payment.refund.failed"}

Range(seq) == {seq[i] : i \in DOMAIN seq}

In(s, type) == Contains(hist[s], <<"in", type>>)
Out(s, type) == Contains(hist[s], <<"out", type>>)

\* positions of hist[s] before i that hold the entry
Before(s, i, entry) == \E j \in 1 .. (i - 1) : hist[s][j] = entry

\* the orchestrator handles an event of the type for saga s in this step
Handles(s, type) ==
    /\ Len(hist'[s]) > Len(hist[s])
    /\ hist'[s][Len(hist[s]) + 1] = <<"in", type>>

\* what the orchestrator publishes for saga s in this step
Published(s) ==
    {hist'[s][i][2] : i \in {j \in (Len(hist[s]) + 1) .. Len(hist'[s]) :
                                 hist'[s][j][1] = "out"}}

\* nothing is in flight and no StartSaga is under way
Quiescent == queue = EmptyBag /\ starting = {}

\* the sequence of compensation commands published for saga s
RECURSIVE CompensationsOf(_)
CompensationsOf(h) ==
    IF h = <<>> THEN <<>>
    ELSE IF Head(h)[1] = "out" /\ Head(h)[2] \in Range(CompensationCommand)
    THEN <<Head(h)[2]>> \o CompensationsOf(Tail(h))
    ELSE CompensationsOf(Tail(h))

\* a failure reply for saga s was published or handled
FailureReplied(s) ==
    \/ \E k \in 1 .. 4 : In(s, FailureReply[k])
    \/ \E e \in InFlight : e.saga = s /\ e.type \in Range(FailureReply)

\* the history of saga s has reached the bound of the model
HistFull(s) == Len(hist[s]) + 2 > MaxHist

----------------------------------------------------------------------------
\* C1: every forward command the orchestrator has published for a saga was
\* published after the success reply of the preceding step was handled and
\* after the commands of all earlier steps, and all earlier forward steps
\* are recorded in completed_steps: the commands come in the order
\* payment.process, inventory.reserve, shipping.create, notification.send
\* and none is skipped.
C1_ForwardOrder ==
    \A s \in SagaIDs : \A i \in DOMAIN hist[s] : \A k \in 1 .. 4 :
        hist[s][i] = <<"out", ForwardCommand[k]>> =>
            /\ IsStepCompleted(sagas[s], StepOrderCreated)
            /\ k > 1 => Before(s, i, <<"in", SuccessReply[k - 1]>>)
            /\ \A m \in 1 .. (k - 1) :
                   /\ Before(s, i, <<"out", ForwardCommand[m]>>)
                   /\ IsStepCompleted(sagas[s], ForwardStep[m])

\* the whole forward chain was sent for some saga
C1_Witness ==
    \E s \in SagaIDs : \A k \in 1 .. 4 : Out(s, ForwardCommand[k])

\* C2: when the consumer of the orchestrator handles a valid order.created
\* message, a saga instance of that order exists afterwards whose
\* completed_steps begin with order_created, and payment.process is published
\* for it.
C2_OrderCreatedStartsSaga ==
    [][\A msg \in BagToSet(deliveries) :
           (/\ msg.valid
            /\ msg.event.type = "order.created"
            /\ handleMessage(msg)) =>
               \E id \in SagaIDs :
                   /\ SagaExists(sagas', id)
                   /\ sagas'[id].order_id = msg.event.order
                   /\ sagas'[id].completed_steps[1] = StepOrderCreated
                   /\ \E e \in BagToSet(queue') :
                          e.type = "payment.process" /\ e.saga = id]_vars

\* C3: when the orchestrator handles payment.failed, inventory.failed or
\* shipping.failed of an existing saga, the saga afterwards has the reason of
\* the payload as failure_reason and status compensating, and a compensation
\* command is published.
C3_FailureStartsCompensation ==
    [][\A s \in SagaIDs : \A e \in InFlight :
           (/\ e.saga = s
            /\ e.type \in {"payment.failed", "inventory.failed",
                           "shipping.failed"}
            /\ SagaExists(sagas, s)
            /\ Handles(s, e.type)) =>
               /\ sagas'[s].status = SagaStatusCompensating
               /\ sagas'[s].failure_reason \in
                      {m.payload.reason : m \in {x \in InFlight :
                                            x.saga = s /\ x.type = e.type}}
               /\ Published(s) \cap Range(CompensationCommand) # {}]_vars

\* a compensation command of saga s was refused by its participant
Refused(s) ==
    \/ \E t \in CompensationRefusal : In(s, t)
    \/ \E e \in InFlight : e.saga = s /\ e.type \in CompensationRefusal

\* C4: the compensation commands published for a saga follow the order
\* shipping.cancel, inventory.release, payment.refund, order.cancel; each is
\* published only after the success reply of every compensation published
\* before it, only for a forward step recorded in completed_steps, and not
\* again after its own success reply was handled; and once a saga whose only
\* failure is shipping.failed has come to rest, its compensation commands are
\* inventory.release, payment.refund, order.cancel.
C4_ReverseCompensationOrder ==
    \A s \in SagaIDs :
        /\ \A i \in DOMAIN hist[s] : \A k \in 1 .. 4 :
               hist[s][i] = <<"out", CompensationCommand[k]>> =>
                   /\ IsStepCompleted(sagas[s], CompensatedForward[k])
                   /\ \A m \in 1 .. 3 :
                          Before(s, i, <<"out", CompensationCommand[m]>>) =>
                              /\ m <= k
                              /\ m < k =>
                                   Before(s, i, <<"in", CompensationReply[m]>>)
                   /\ k <= 3 =>
                        ~Before(s, i, <<"in", CompensationReply[k]>>)
        /\ (/\ Quiescent
            /\ In(s, "shipping.failed")
            /\ ~In(s, "payment.failed")
            /\ ~In(s, "inventory.failed")
            /\ ~Refused(s)) =>
               CompensationsOf(hist[s]) =
                   <<"inventory.release", "payment.refund", "order.cancel">>

\* C5: a saga whose compensation commands were all answered with success is
\* not left in status compensating once nothing is in flight any more, and a
\* compensated saga has had order.cancelled published.
C5_CompensationCompletes ==
    \A s \in SagaIDs :
        /\ (Quiescent /\ ~Refused(s)) =>
               sagas[s].status # SagaStatusCompensating
        /\ sagas[s].status = SagaStatusCompensated =>
               Out(s, "order.cancelled")

\* the saga of order o is completed, order.completed was published and the
\* order is completed
HappyEnd(o) ==
    /\ sagas[OrchSagaID(o)].status = SagaStatusCompleted
    /\ Out(OrchSagaID(o), "order.completed")
    /\ orders[o].status = "completed"

C7_NotificationFailureNoCompensation ==
    [][\A s \in SagaIDs :
           Handles(s, "notification.failed") =>
               /\ sagas'[s].status = sagas[s].status
               /\ sagas'[s].status # SagaStatusCompensating
                    \/ sagas[s].status = SagaStatusCompensating
               /\ Published(s) \cap Range(CompensationCommand) = {}]_vars

\* notification.failed was handled for an existing saga
C7_Witness ==
    \E s \in SagaIDs : SagaExists(sagas, s) /\ In(s, "notification.failed")

\* C8: once nothing is in flight any more, a saga whose forward chain
\* succeeded through shipping and whose notification failed is completed, and
\* so is its order.
C8_NotificationFailureCompletes ==
    \A o \in Orders :
        (/\ Quiescent
         /\ In(OrchSagaID(o), "shipping.created")
         /\ In(OrchSagaID(o), "notification.failed")
         /\ \A k \in 1 .. 3 : ~In(OrchSagaID(o), FailureReply[k])) =>
            /\ sagas[OrchSagaID(o)].status = SagaStatusCompleted
            /\ orders[o].status = "completed"

ReplyTypes ==
    Range(SuccessReply) \cup Range(FailureReply) \cup Range(CompensationReply)

\* C9: a step in which the orchestrator handles a reply event it has already
\* handled for the saga leaves the persisted row of the saga unchanged.
C9_ReplayIsNoOp ==
    [][\A s \in SagaIDs : \A t \in ReplyTypes :
           (SagaExists(sagas, s) /\ In(s, t) /\ Handles(s, t)) =>
               sagas'[s] = sagas[s]]_vars

\* position of a forward step in the chain
ChainIndex(step) ==
    CASE step = StepOrderCreated -> 0
      [] step = StepPaymentProcessed -> 1
      [] step = StepInventoryReserved -> 2
      [] step = StepShippingCreated -> 3
      [] step = StepNotificationSent -> 4
      [] OTHER -> 0 - 1

\* C10: current_step of every saga is the forward step of completed_steps
\* that comes last in the chain.
C10_CurrentStepLatest ==
    \A s \in SagaIDs :
        SagaExists(sagas, s) =>
            /\ IsStepCompleted(sagas[s], sagas[s].current_step)
            /\ \A i \in DOMAIN sagas[s].completed_steps :
                   ChainIndex(sagas[s].completed_steps[i]) <=
                       ChainIndex(sagas[s].current_step)

----------------------------------------------------------------------------
Commands == Range(ForwardCommand) \cup Range(CompensationCommand)

\* C11: a step never changes the status of a saga that is completed or
\* compensated and publishes no command for it; a step never takes a
\* compensating saga to in_progress and publishes no forward command for it.
C11_MonotonicStatus ==
    [][\A s \in SagaIDs :
           /\ sagas[s].status \in {SagaStatusCompleted, SagaStatusCompensated} =>
                  /\ sagas'[s].status = sagas[s].status
                  /\ Published(s) \cap Commands = {}
           /\ sagas[s].status = SagaStatusCompensating =>
                  /\ sagas'[s].status # SagaStatusInProgress
                  /\ Published(s) \cap Range(ForwardCommand) = {}]_vars

\* the failure of the notification step is recorded in the row of saga s
NotificationFailureRecorded(s) ==
    sagas[s].failure_reason = "Notification provider unavailable"

\* C12: a completed saga has order_created and all four forward steps in
\* completed_steps, or all but notification_sent with the notification
\* failure recorded.
C12_CompletedHasAllSteps ==
    \A s \in SagaIDs :
        sagas[s].status = SagaStatusCompleted =>
            /\ IsStepCompleted(sagas[s], StepOrderCreated)
            /\ \A k \in 1 .. 3 : IsStepCompleted(sagas[s], ForwardStep[k])
            /\ \/ IsStepCompleted(sagas[s], StepNotificationSent)
               \/ NotificationFailureRecorded(s)

\* a saga is completed after a reply was redelivered
C12_Witness ==
    \E s \in SagaIDs : sagas[s].status = SagaStatusCompleted /\ dups > 0

----------------------------------------------------------------------------
\* Properties of the inventory service

\* the inventory handler handles a command of the type for the saga in this
\* step and publishes the reply
InventoryHandles(type, sagaID, reply) ==
    /\ Len(invLog') = Len(invLog) + 1
    /\ invLog'[Len(invLog')] =
           [type |-> type, saga |-> sagaID, reply |-> reply]

InventoryReplies == {"inventory.reserved", "inventory.failed", "inventory.released"}

\* the rows of the saga that are in status reserved
ReservedRows(res, sagaID) ==
    {i \in DOMAIN res : res[i].saga = sagaID /\ res[i].status = "reserved"}

RECURSIVE SumQuantities(_, _)
\* total quantity of the rows of the set
SumQuantities(res, rows) ==
    IF rows = {} THEN 0
    ELSE LET i == CHOOSE x \in rows : TRUE
         IN  res[i].quantity + SumQuantities(res, rows \ {i})

\* C14: for every product, stock >= reserved_stock >= 0, whatever reserve and
\* release commands the inventory handler has handled, in whatever order.
C14_StockBounds ==
    \A p \in Products :
        /\ products[p].stock >= products[p].reserved_stock
        /\ products[p].reserved_stock >= 0

\* a release was handled twice for a saga whose reservation had succeeded,
\* and some product is reserved up to its stock
C14_Witness ==
    /\ \E i, j, k \in DOMAIN invLog :
           /\ i < j /\ j < k
           /\ invLog[i] = [type |-> "inventory.reserve", saga |-> invLog[j].saga,
                           reply |-> "inventory.reserved"]
           /\ invLog[j].type = "inventory.release"
           /\ invLog[k] = invLog[j]
    /\ \E p \in Products :
           products[p].stock > 0 /\ products[p].reserved_stock = products[p].stock

\* C15: a step in which inventory.reserve is answered with inventory.failed
\* leaves the reserved_stock of every product as it was before the command
\* and adds no reservation in status reserved.
C15_FailedReserveRollsBack ==
    [][\A sagaID \in InventorySagas :
           InventoryHandles("inventory.reserve", sagaID, "inventory.failed") =>
               /\ \A p \in Products :
                      products'[p].reserved_stock = products[p].reserved_stock
               /\ \A i \in DOMAIN reservations' \ DOMAIN reservations :
                      reservations'[i].status # "reserved"]_vars

\* failure of any forward step of saga s was handled by the orchestrator
ForwardFailureHandled(s) ==
    In(s, "payment.failed") \/ In(s, "inventory.failed")
        \/ In(s, "shipping.failed")

\* C16: once a saga with a failed forward step has come to rest with every
\* compensation command answered by success, the reserved_stock of every
\* product is back at its value before the saga and no reservation of the
\* saga is in status reserved.
C16_RoundTripRestoresStock ==
    \A o \in Orders :
        (/\ Quiescent
         /\ ForwardFailureHandled(OrchSagaID(o))
         /\ ~Refused(OrchSagaID(o))) =>
            /\ \A p \in Products : products[p].reserved_stock = 0
            /\ ReservedRows(reservations, OrchSagaID(o)) = {}

\* C17: a step in which inventory.reserve is handled for a saga that already
\* has reservations leaves reserved_stock of every product and the rows of
\* inventory_reservations as they were, and answers inventory.reserved.
C17_SecondReserveIsNoOp ==
    [][\A sagaID \in InventorySagas : \A reply \in InventoryReplies :
           (/\ InventoryHandles("inventory.reserve", sagaID, reply)
            /\ \E i \in DOMAIN reservations : reservations[i].saga = sagaID) =>
               /\ \A p \in Products :
                      products'[p].reserved_stock = products[p].reserved_stock
               /\ Len(reservations') = Len(reservations)
               /\ reply = "inventory.reserved"]_vars

\* C18: a step in which inventory.release is handled for a saga lowers the
\* reserved_stock of each product by the quantity of the rows of the saga
\* that were in status reserved, and by nothing else; a second release of
\* the same saga therefore changes nothing.
C18_ReleaseIdempotent ==
    [][\A sagaID \in InventorySagas :
           InventoryHandles("inventory.release", sagaID, "inventory.released") =>
               /\ \A p \in Products :
                      products[p].reserved_stock - products'[p].reserved_stock =
                          SumQuantities(reservations,
                              {i \in ReservedRows(reservations, sagaID) :
                                   reservations[i].product = p})
               /\ ReservedRows(reservations', sagaID) = {}]_vars

----------------------------------------------------------------------------
\* Properties of the payment service

\* the payment handler handles a command of the type in this step
PaymentHandles(type) ==
    /\ Len(payLog') = Len(payLog) + 1
    /\ payLog'[Len(payLog')].type = type

LastPayment == payLog'[Len(payLog')]

\* C19: a step in which payment.process is handled for an order that already
\* has a payment adds no row to payments and answers payment.processed when
\* that payment is completed and payment.failed when it is failed.
C19_DuplicateProcessReemits ==
    [][\A i \in DOMAIN payments :
           (PaymentHandles("payment.process")
            /\ LastPayment.ref = payments[i].order) =>
               /\ Len(payments') = Len(payments)
               /\ payments[i].status = "completed" =>
                      LastPayment.reply = "payment.processed"
               /\ payments[i].status = "failed" =>
                      LastPayment.reply = "payment.failed"]_vars

\* C20: a step in which payment.refund is handled for a payment that is
\* already refunded answers payment.refunded and leaves the payments table
\* as it was.
C20_DuplicateRefundReemits ==
    [][\A i \in DOMAIN payments :
           (/\ PaymentHandles("payment.refund")
            /\ LastPayment.ref = i
            /\ payments[i].status = "refunded") =>
               /\ LastPayment.reply = "payment.refunded"
               /\ payments' = payments]_vars

\* C21: every payment has 0 <= refunded_amount <= amount, and a refunded
\* payment has refunded_amount > 0.
C21_RefundedAmountBounds ==
    \A i \in DOMAIN payments :
        /\ 0 <= payments[i].refunded_amount
        /\ payments[i].refunded_amount <= payments[i].amount
        /\ payments[i].status = "refunded" => payments[i].refunded_amount > 0

\* a payment of amount 2 of which 1 has been refunded
C21_Witness ==
    \E i \in DOMAIN payments :
        /\ payments[i].status = "refunded"
        /\ payments[i].amount = 2
        /\ payments[i].refunded_amount = 1

\* the payment the refund request names or finds by its saga is in the table
RefundTarget(request) ==
    /\ ~RefundLookup(payments, request).err
    /\ RefundLookup(payments, request).id # NilPaymentID

\* C22: a step in which payment.refund is handled for a payment that is not
\* completed, or with an amount <= 0, or with an amount above
\* amount - refunded_amount, answers payment.refund.failed and leaves the
\* payments table as it was.
C22_RefundRefused ==
    [][\A sagaID \in PaymentSagas : \A paymentID \in PaymentIDs :
           \A transactionID \in {"", "transaction"} :
               \A amount \in PaymentAmounts : \A success \in BOOLEAN :
       LET request == PaymentRefundRequest(sagaID, paymentID, transactionID,
                                           amount)
           payment == payments[RefundLookup(payments, request).id]
       IN  (/\ PaymentHandles("payment.refund")
            /\ LastPayment.ref = paymentID
            /\ RefundTarget(request)
            /\ \/ payment.status # "completed"
               \/ amount <= 0
               \/ amount > payment.amount - payment.refunded_amount
            /\ handlePaymentRefundCommand(sagaID, paymentID, transactionID,
                                          amount, success)) =>
               /\ LastPayment.reply = "payment.refund.failed"
               /\ payments' = payments]_vars

\* a refund of a failed payment has been refused
C22_Witness ==
    /\ payLog # <<>>
    /\ payLog[Len(payLog)].type = "payment.refund"
    /\ payLog[Len(payLog)].reply = "payment.refund.failed"
    /\ PaymentFound(payments, payLog[Len(payLog)].ref)
    /\ payments[payLog[Len(payLog)].ref].status = "failed"

----------------------------------------------------------------------------
\* Properties of the integrated refund

\* C23: every payment.refund command in flight identifies the payment of its
\* saga: the request the payment handler builds from it (payment_id, else
\* the saga id) finds a row of payments that belongs to the saga, so that
\* the payment service can refund it and answer payment.refunded.
C23_RefundIdentifiesPayment ==
    \A e \in InFlight :
        e.type = "payment.refund" =>
            LET found == RefundLookup(payments, mapToPaymentRefundRequest(e))
            IN  /\ ~found.err
                /\ PaymentFound(payments, found.id)
                /\ payments[found.id].saga = e.saga

----------------------------------------------------------------------------
\* Properties of the consumer

\* C24: a message whose handler fails on every delivery is published again
\* at most 3 times.
C24_RepublishBounded ==
    \A msg \in BagToSet(deliveries) : msg.republished <= 3

\* C30: a step in which the orchestrator's consumer handles an event whose
\* saga id matches no saga instance acknowledges the delivery: the message
\* leaves the queue, is neither published again nor rejected, and no saga
\* row changes.
C30_UnknownSagaAcked ==
    [][\A msg \in BagToSet(deliveries) :
           (/\ msg.valid
            /\ ~SagaExists(sagas, msg.event.saga)
            /\ handleMessage(msg)) =>
               /\ deliveries' = deliveries (-) SetToBag({msg})
               /\ dead' = dead
               /\ sagas' = sagas]_vars

----------------------------------------------------------------------------
\* Properties of failed compensations

\* C25: a saga for which the orchestrator has handled the failure of a
\* compensation (shipping.cancel.failed, inventory.release.failed or
\* payment.refund.failed) is in status compensating, and order.cancelled has
\* not been published for it.
C25_FailedCompensationStaysCompensating ==
    \A s \in SagaIDs :
        (\E t \in CompensationRefusal : In(s, t)) =>
            /\ sagas[s].status = SagaStatusCompensating
            /\ ~Out(s, "order.cancelled")

----------------------------------------------------------------------------
\* Properties of concurrent handlers

\* C26: with two orchestrator instances no step recorded in completed_steps
\* of a saga is lost: every step keeps the steps recorded so far.
C26_NoRecordedStepLost ==
    [][\A s \in SagaIDs :
           \A step \in Range(sagas[s].completed_steps) :
               step \in Range(sagas'[s].completed_steps)]_vars

\* the reservations of the product that are in status reserved
ReservedOf(p) ==
    {i \in DOMAIN reservations :
        reservations[i].product = p /\ reservations[i].status = "reserved"}

\* C27: under concurrent inventory.reserve commands the reserved_stock of
\* every product equals the sum of the quantities of its reservations in
\* status reserved.
C27_ReservedStockIsSum ==
    \A p \in Products :
        products[p].reserved_stock = SumQuantities(reservations, ReservedOf(p))

----------------------------------------------------------------------------
\* Properties of crash recovery

\* C28: once the orchestrator has crashed and restarted and the system has
\* come to rest (nothing in flight, no StartSaga running), no saga is left
\* in status started, in_progress or compensating.
C28_ResumesAfterCrash ==
    (crashes > 0 /\ Quiescent) =>
        \A s \in SagaIDs :
            sagas[s].status \notin {SagaStatusStarted, SagaStatusInProgress,
                                    SagaStatusCompensating}

----------------------------------------------------------------------------
\* Properties of the order service

\* C29: a step in which the order service handles order.completed leaves the
\* order completed; a step in which it handles order.cancelled leaves the
\* order cancelled with the reason of the payload as failure_reason; no other
\* step changes the status of an order.
C29_OrderFollowsTerminalEvent ==
    [][\A o \in Orders :
           /\ \A e \in InFlight :
                  (e.order = o /\ OrderHandleSagaEvent(e)) =>
                      /\ e.type = "order.completed" =>
                             orders'[o].status = "completed"
                      /\ e.type = "order.cancelled" =>
                             /\ orders'[o].status = "cancelled"
                             /\ orders'[o].failure_reason =
                                    Get(e.payload, "reason")
           /\ orders'[o].status # orders[o].status =>
                  \E e \in InFlight :
                      /\ e.order = o
                      /\ e.type \in {"order.completed", "order.cancelled"}
                      /\ OrderHandleSagaEvent(e)]_vars

----------------------------------------------------------------------------
\* Properties of a failed publish

\* the last thing the orchestrator did for saga s was to handle an event of
\* the type with the publish of its command failing
PublishFailed(s, type) ==
    /\ Len(hist[s]) >= 2
    /\ hist[s][Len(hist[s]) - 1] = <<"in", type>>
    /\ hist[s][Len(hist[s])][1] = "fail"
    /\ hist[s][Len(hist[s])][2] \in
           Range(ForwardCommand) \cup Range(CompensationCommand)

\* C31: when the publish of a forward command fails, the completed step and
\* status in_progress are already in the saga row; when the publish of the
\* compensation command of a failure reply fails, status compensating and the
\* failure reason are already in the row; and a step that handles the same
\* event again right after the failed publish (no other event of that type
\* is in flight for the saga) leaves the row as it is and comes to the same
\* command.
C31_PersistedBeforeEmit ==
    [][\A e \in InFlight :
           /\ OrchestratorPublishFails(e) =>
                  LET cmd == hist'[e.saga][Len(hist'[e.saga])][2]
                  IN  /\ cmd \in Range(ForwardCommand) =>
                             /\ sagas'[e.saga].status = SagaStatusInProgress
                             /\ IsStepCompleted(sagas'[e.saga],
                                                SuccessStepOf(e.type))
                      /\ (/\ cmd \in Range(CompensationCommand)
                          /\ FailedStepOf(e.type) # "") =>
                             /\ sagas'[e.saga].status = SagaStatusCompensating
                             /\ sagas'[e.saga].failure_reason =
                                    Get(e.payload, "reason")
           /\ (/\ PublishFailed(e.saga, e.type)
               /\ \A x \in InFlight :
                      (x.saga = e.saga /\ x.type = e.type) => x = e
               /\ \/ OrchestratorHandleSagaEvent(e)
                  \/ OrchestratorPublishFails(e)) =>
                  /\ sagas'[e.saga] = sagas[e.saga]
                  /\ hist'[e.saga][Len(hist'[e.saga])][2] =
                         hist[e.saga][Len(hist[e.saga])][2]]_vars

\* a forward command and a compensation command were each published by the
\* handler that ran again after their publish had failed
C31_Witness ==
    \E s \in SagaIDs : \E i, j \in DOMAIN hist[s] :
        /\ i + 2 <= Len(hist[s]) /\ j + 2 <= Len(hist[s])
        /\ hist[s][i][1] = "fail" /\ hist[s][i][2] \in Range(ForwardCommand)
        /\ hist[s][i + 2] = <<"out", hist[s][i][2]>>
        /\ hist[s][j][1] = "fail"
        /\ hist[s][j][2] \in Range(CompensationCommand)
        /\ hist[s][j + 2] = <<"out", hist[s][j][2]>>

----------------------------------------------------------------------------
\* Properties of routing

\* C32: every event in flight that some consumer serves has a routing key
\* that matches a binding of the queue of that consumer.
C32_RoutedToItsConsumer ==
    \A e \in InFlight :
        ConsumerOf(e) # "" => ConsumerOf(e) \in RoutedTo(RoutingKey(e))

----------------------------------------------------------------------------
\* Properties of partial refunds

\* C33: a payment has status refunded only when refunded_amount equals its
\* amount, and a payment of which a part was refunded can be refunded again.
C33_RefundedOnlyWhenFull ==
    \A i \in DOMAIN payments :
        /\ payments[i].status = "refunded" =>
               payments[i].refunded_amount = payments[i].amount
        /\ (/\ payments[i].refunded_amount > 0
            /\ payments[i].refunded_amount < payments[i].amount) =>
               CanRefund(payments[i])

----------------------------------------------------------------------------
\* the command the shipping handler has just been handed, with its reply
ShippingCommandHandled(type) ==
    /\ Len(shipLog') = Len(shipLog) + 1
    /\ shipLog'[Len(shipLog')].type = type

LastShippingCommand == shipLog'[Len(shipLog')]

\* C34: a shipping.cancel command turns a shipment to cancelled only from
\* pending or preparing; when it cancels nothing (the shipment is in another
\* status, or none is located) the shipments are left as they were and
\* shipping.cancel.failed is the reply
C34_CancelOnlyFromPendingOrPreparing ==
    [][ShippingCommandHandled("shipping.cancel") =>
           /\ Len(shipments') = Len(shipments)
           /\ \A i \in DOMAIN shipments :
                  shipments'[i] # shipments[i] =>
                      /\ shipments[i].status \in {"pending", "preparing"}
                      /\ shipments'[i].status = "cancelled"
           /\ shipments' = shipments =>
                  LastShippingCommand.reply = "shipping.cancel.failed"]_vars

\* C35: a shipping.create command for an order that has a shipment already,
\* with the provider available, creates no second shipment and is answered
\* with shipping.created again, never with shipping.failed
C35_DuplicateCreateReemits ==
    [][(/\ ShippingCommandHandled("shipping.create")
        /\ LastShippingCommand.ok
        /\ \E i \in DOMAIN shipments :
               shipments[i].order = LastShippingCommand.request.order)
           => /\ shipments' = shipments
              /\ LastShippingCommand.reply = "shipping.created"]_vars

----------------------------------------------------------------------------
\* Properties of the settlement of deliveries

\* C36: the consumer settles every delivery it handles exactly once: with an
\* ack when the handler succeeded or the message was published again, with
\* a nack without requeue when the body does not decode (the handler is not
\* invoked then), when the retry threshold is reached, or when publishing
\* the message again fails.
C36_SettledExactlyOnce ==
    \A i \in DOMAIN settled :
        LET h == settled[i]
        IN  /\ Len(h.calls) = 1
            /\ ~h.valid => h.handler = "skipped"
            /\ h.calls[1] = "ack" <=>
                   \/ h.handler = "ok"
                   \/ h.republish = "ok"
            /\ h.calls[1] = "nack" <=>
                   \/ ~h.valid
                   \/ h.handler = "failed" /\ ~shouldRetry(h)
                   \/ h.republish = "failed"

\* each way of settling has happened: a nack after a failed publish
C36_Witness ==
    \E i \in DOMAIN settled :
        /\ settled[i].republish = "failed"
        /\ settled[i].calls = <<"nack">>

----------------------------------------------------------------------------
\* Properties of the reconnection

\* C37: once the client has reconnected after a loss of the connection, the
\* exchange is declared and the consumer's subscription is established on
\* the new channel, so that messages published afterwards are delivered to
\* the handler again.
C37_ConsumptionResumes ==
    (broker.connected /\ broker.lost > 0) =>
        /\ broker.exchange = broker.channel
        /\ Subscribed

----------------------------------------------------------------------------
\* Properties of the terminal events

\* the number of terminal events the orchestrator has published for saga s
TerminalEvents(s) ==
    Len(SelectSeq(hist[s],
                  LAMBDA h : h \in {<<"out", "order.completed">>,
                                    <<"out", "order.cancelled">>}))

\* C38: the orchestrator publishes at most one terminal event for a saga,
\* whatever events arrive, duplicates and late replies included:
\* order.completed and order.cancelled never both, and neither twice.
C38_AtMostOneTerminalEvent ==
    \A s \in SagaIDs : TerminalEvents(s) <= 1

----------------------------------------------------------------------------
\* Properties of the compensation commands

\* the entries a step has added to the history of saga s
NewEntries(s) == SubSeq(hist'[s], Len(hist[s]) + 1, Len(hist'[s]))

EmitsCompensationCommand(s) ==
    \E c \in Range(CompensationCommand) : Contains(NewEntries(s), <<"out", c>>)

\* C39: the orchestrator publishes a compensation command only for a saga
\* whose row has status compensating; handling a compensation-success event
\* (shipping.cancelled, inventory.released, payment.refunded) of a saga in
\* status started, in_progress or completed publishes no compensation
\* command and does not set status compensated.
C39_CompensationOnlyWhenCompensating ==
    [][\A s \in SagaIDs :
           /\ EmitsCompensationCommand(s) =>
                  sagas'[s].status = SagaStatusCompensating
           /\ (/\ NewEntries(s) # <<>>
               /\ \E t \in Range(CompensationReply) :
                      NewEntries(s)[1] = <<"in", t>>
               /\ sagas[s].status \in {SagaStatusStarted, SagaStatusInProgress,
                                       SagaStatusCompleted}) =>
                  /\ ~EmitsCompensationCommand(s)
                  /\ sagas'[s].status # SagaStatusCompensated]_vars

----------------------------------------------------------------------------
\* Properties of the payment service under failing updates

\* C40: the payment service answers payment.processed only when the row of
\* the payment is stored with status completed; after an update that failed
\* the row is still pending and payment.processed is not published.
C40_ProcessedOnlyWhenStoredCompleted ==
    [][(/\ Len(payLog') = Len(payLog) + 1
        /\ payLog'[Len(payLog')].reply = "payment.processed") =>
           \E i \in DOMAIN payments' :
               /\ payments'[i].order = payLog'[Len(payLog')].ref
               /\ payments'[i].status = "completed"]_vars

====
